---- MODULE Spec2Model ----
(***************************************************************************)
(* A state-machine model of scraperflow's ScraperFlow class                *)
(* (src/src/scraper-flow.ts): the public facade (start, startOnce, stop),  *)
(* the cycle loop, the per-cycle flow orchestrator (startFlows,            *)
(* handleFlowExecution), the five pagination drivers, the fail counter     *)
(* and the flow-context updater.                                           *)
(*                                                                         *)
(* JavaScript runs every callback to completion, so one action of the      *)
(* model is one run-to-completion step: an API call made from outside, a   *)
(* process.nextTick callback, the continuation of an await, an I/O         *)
(* completion or a timer.  A user callback that runs synchronously inside  *)
(* such a step and calls back into the API (stop(true) from a fetchHandler,*)
(* start() from a fetchHandler) is an input of the step.  Continuations    *)
(* that are already queued (nextTick callbacks, promise reactions) run     *)
(* before the next I/O completion, timer or outside call (Urgent).         *)
(***************************************************************************)
EXTENDS Integers, Sequences, FiniteSets, TLC

VARIABLES
    options,      \* the validated options record (this.options)
    user,         \* how the user's callbacks behave in this run of the program
    state,        \* this.#state: running, flowsContexts, isFirstContextInit, isConcurrencyFixed
    loops,        \* one record per _startCycleLoop invocation, by run id
    cycles,       \* one record per cycle (cycle handler + orchestrator closure), by cycle id
    seq,          \* allocation counters: runs, cycles, flow-context objects
    lastSummary,  \* the cycleSummary event the last step emitted (NoSummary: none)
    lastCall      \* the call of start() / startOnce() / stop() the last step was (NoCall: none)

vars == <<options, user, state, loops, cycles, seq, lastSummary, lastCall>>

-----------------------------------------------------------------------------
(* Bounds of the model *)

\* start() calls that start a loop, over the whole behaviour
MaxRuns == 2
\* cycles begun, over the whole behaviour
MaxCycles == 2
\* the data source has at most this many pages; fresh page ids are allocated
\* up to MaxPage + 1 (one page of overshoot)
MaxPage == 2

-----------------------------------------------------------------------------
(* PaginationType (src/unnamed/part_001) *)

None == 0
TotalPages == 1
HasMore == 2
Cursor == 3
List == 4

\* Number.POSITIVE_INFINITY, the default of maxTotalPageFails / maxConsecutivePageFails
Infinity == 1000000

\* `undefined` where a page number is expected
Undefined == -1

-----------------------------------------------------------------------------
(* Sequence helpers: JavaScript arrays and insertion-ordered Sets *)

Range(s) == {s[i] : i \in DOMAIN s}

\* Array.prototype.filter / the for-of loop that copies the free contexts
Filter(s, keep) == SelectSeq(s, LAMBDA x : x \in keep)

\* Set.prototype.add on an insertion-ordered Set
SetAdd(s, x) == IF x \in Range(s) THEN s ELSE Append(s, x)

\* Array.prototype.slice(from) with a 0-based index
SliceFrom(s, from) == IF from >= Len(s) THEN <<>> ELSE SubSeq(s, from + 1, Len(s))

\* the ids seq+1 .. seq+n as a sequence: n freshly created objects
Fresh(from, n) == [i \in 1..n |-> from + i]

-----------------------------------------------------------------------------
(* DEFAULT_OPTIONS, as validateOptions fills them in *)

DefaultPolicy ==
    [retryLimit |-> 2, retryDistinctFlows |-> TRUE, skipPageIfPossible |-> FALSE,
     maxTotalPageFails |-> Infinity, maxConsecutivePageFails |-> Infinity]

\* interval / cycleInterval are scalars here: 0 (never sleeps) or 1 (a positive
\* delay); cycleInterval = Undefined falls back to interval (_computeInterval)
DefaultOptions ==
    [paginationType |-> None, concurrency |-> 1,
     paginationStart |-> 1, paginationPrefetch |-> FALSE,
     interval |-> 1, intervalStrategy |-> "dynamic",
     cycleInterval |-> Undefined, cycleIntervalStrategy |-> "fixed",
     resetThisContext |-> FALSE, resetFlowContext |-> FALSE,
     removeContextForRedundantFlows |-> TRUE,
     errorHandlingPolicy |-> DefaultPolicy]

\* the user's callbacks: initFlowContext returns an array of arrayLen contexts
\* (0: a single context), resolveList returns listLen items (0: an empty list),
\* the source has totalPages pages; stops / starts: fetchHandler may call
\* stop(true) / start() on the scraper that invokes it
\* throwsOnce: the pages whose first fetch of a cycle throws;
\* ctxBudget: initFlowContext hands out this many contexts and then throws (or
\* returns an empty array, a non-object, the other shape);
\* thisBudget: initThisContext succeeds this many times and then throws (or
\* returns a non-object);
\* summaryHandler: options.summaryHandler is not set ("none"), fulfils ("ok"),
\* throws or rejects ("throws"); responseHandler: the same for
\* options.responseHandler; results: how a fetch may end ("ok"; "error":
\* fetchHandler threw; "resolveError": fetchHandler returned a response and the
\* resolver threw or returned an invalid value); listens: a listener of the
\* started and stopped events is registered
DefaultUser ==
    [arrayLen |-> 0, listLen |-> 2, totalPages |-> 2, stops |-> FALSE, starts |-> FALSE,
     throwsOnce |-> {}, ctxBudget |-> Infinity, thisBudget |-> Infinity,
     summaryHandler |-> "none", responseHandler |-> "none",
     results |-> {"ok", "error"}, listens |-> FALSE]

_computeInterval(property) ==
    IF property = "cycleInterval" /\ options.cycleInterval # Undefined
    THEN options.cycleInterval
    ELSE options.interval

_getConcurrencyOptions ==
    IF options.paginationType \in {None, Cursor}
    THEN [concurrency |-> 1, removeContextForRedundantFlows |-> TRUE,
          concurrencySupported |-> FALSE]
    ELSE [concurrency |-> options.concurrency,
          removeContextForRedundantFlows |-> options.removeContextForRedundantFlows,
          concurrencySupported |-> TRUE]

-----------------------------------------------------------------------------
(* The program state an operation works on ("world"): the operators below   *)
(* take it and return it changed, so that one action can thread it through  *)
(* every call the handler makes.                                            *)

World == [state |-> state, loops |-> loops, cycles |-> cycles, seq |-> seq]

SetCy(W, cid, c) == [W EXCEPT !.cycles[cid] = c]

\* the contexts of `flows`: every dispatched handleFlowExecution holds one
flows(c) == DOMAIN c.workers

\* the size of the data source, where it is larger than MaxPage
PageLimit == IF user.totalPages > MaxPage THEN user.totalPages ELSE MaxPage

PageIds == 0..(PageLimit + 1)

\* `undefined` where a pending retry is expected
NoRetry == [page |-> Undefined, cursor |-> 0, flows |-> {}, attemptsLeft |-> -1]

\* the closure state of one cycle: the cycle handler's locals (summaryHelper,
\* failCounter, nextPage, lastPage, ...) and the orchestrator's locals
NewCycle(r) ==
    [run |-> r,
     aborted |-> FALSE,            \* the per-cycle signal
     started |-> FALSE,            \* _startFlowOrchestrator has been entered
     resolved |-> FALSE,
     summarized |-> FALSE,         \* the cycle handler has returned its summary
     executorDone |-> FALSE,
     firstPageReady |-> FALSE,
     workers |-> << >>,            \* ctx -> the handleFlowExecution in progress on it
     pendingRetries |-> << >>,
     lastExec |-> {},              \* the keys of flowsLastExecution
     ticks |-> 0,                  \* queued process.nextTick(startFlows)
     nextPage |-> CASE options.paginationType \in {TotalPages, HasMore} -> options.paginationStart
                    [] options.paginationType = List -> 0
                    [] OTHER -> 1,
     lastPage |-> Undefined,
     nextPageCursor |-> 0,         \* 0: undefined; k: the cursor resolved from page k
     listLen |-> 0,
     completed |-> FALSE,
     totalPageCount |-> IF options.paginationType = None THEN 1 ELSE 0,
     failedPageList |-> << >>,
     totalErrorCount |-> 0,
     pageFailTimeline |-> << >>,
     totalPageFails |-> 0,
     consecutivePageFails |-> 0,
     fetchCount |-> 0,             \* fetchHandler calls of this cycle
     fetchAfterAbort |-> FALSE,    \* fetchHandler was called with the signal aborted
     failures |-> 0,               \* executor calls that returned a retry (a failed attempt)
     freshAfterDone |-> FALSE,     \* the executor took a fresh page after done()
     ctxsAtStart |-> 0,            \* flowsContexts.length after the first dispatch pass
     concAtStart |-> 0,            \* options.concurrency at that pass
     responses |-> 0,              \* fetchHandler calls that returned a response to handle
     handled |-> 0,                \* responseHandler calls
     attempts |-> [p \in PageIds |-> << >>]]  \* per page, the contexts it was fetched on

-----------------------------------------------------------------------------
(* _initFailCounter *)

\* limits that allow one failed page more than they say
canSkipPageLenient(c) ==
    /\ options.errorHandlingPolicy.skipPageIfPossible
    /\ c.totalPageFails <= options.errorHandlingPolicy.maxTotalPageFails + 1
    /\ c.consecutivePageFails <= options.errorHandlingPolicy.maxConsecutivePageFails + 1

canSkipPage(c) ==
    /\ options.errorHandlingPolicy.skipPageIfPossible
    /\ c.totalPageFails <= options.errorHandlingPolicy.maxTotalPageFails
    /\ c.consecutivePageFails <= options.errorHandlingPolicy.maxConsecutivePageFails

success(c) ==
    [c EXCEPT !.pageFailTimeline =
                  IF Len(@) > 0 /\ @[Len(@)] # Undefined THEN Append(@, Undefined) ELSE @,
              !.consecutivePageFails = 0]

\* fail(page): the counters after the call; it returns ~canSkipPage of them
fail(c, page) ==
    [c EXCEPT !.pageFailTimeline = IF page # Undefined THEN Append(@, page) ELSE @,
              !.totalPageFails = @ + 1,
              !.consecutivePageFails = @ + 1]

\* a recount that takes the failed pages beyond lastPage too
countedAlways(page, lastPage) == page # Undefined

\* `typeof page !== 'undefined'` and `page <= lastPage`
countedUpTo(page, lastPage) == page # Undefined /\ page <= lastPage

RECURSIVE completeLoop(_, _, _, _)
\* the for loop of complete(lastPage); acc = [total, cons, cur]
completeLoop(timeline, lastPage, i, acc) ==
    IF i > Len(timeline) THEN acc
    ELSE LET page == timeline[i]
             counted == countedUpTo(page, lastPage)
             a1 == IF counted
                   THEN [acc EXCEPT !.total = @ + 1, !.cur = @ + 1]
                   ELSE acc
         IN IF page # Undefined /\ i < Len(timeline)
            THEN completeLoop(timeline, lastPage, i + 1, a1)
            ELSE completeLoop(timeline, lastPage, i + 1,
                     [a1 EXCEPT !.cons = IF a1.cur > @ THEN a1.cur ELSE @, !.cur = 0])

\* complete(lastPage): the counters it leaves; it returns canSkipPage of them
complete(c, lastPage) ==
    IF lastPage # Undefined
    THEN LET acc == completeLoop(c.pageFailTimeline, lastPage, 1,
                                 [total |-> 0, cons |-> 0, cur |-> 0])
         IN [c EXCEPT !.totalPageFails = acc.total, !.consecutivePageFails = acc.cons]
    ELSE c

-----------------------------------------------------------------------------
(* stop(forced) and the abort listeners *)

\* currentCycleAbortController.abort(): the listeners of the per-cycle signal
\* are the orchestrator's finish (registered once the orchestrator runs, removed
\* when it has resolved) and the sleeping workers' onabort (WakeWorker)
abortCycle(W, cid) ==
    IF cid \notin DOMAIN W.cycles \/ W.cycles[cid].aborted THEN W
    ELSE [W EXCEPT !.cycles[cid].aborted = TRUE,
                   !.cycles[cid].resolved = IF W.cycles[cid].started THEN TRUE ELSE @]

\* onabort without its forced-stop test: every abort of the run's signal aborts
\* the current cycle
onabortAlways(W, r, forcedStop) ==
    IF W.loops[r].pc \in {"exited", "stopped"} THEN W
    ELSE abortCycle([W EXCEPT !.loops[r].forced = forcedStop], W.loops[r].cur)

\* onabort that reads signal.reason only and ignores the event's forcedStop flag
onabortReasonOnly(W, r, forcedStop) ==
    IF W.loops[r].pc \in {"exited", "stopped"} \/ W.loops[r].reason # "forcedStop" THEN W
    ELSE LET W1 == [W EXCEPT !.loops[r].forced = TRUE]
         IN IF W.loops[r].cur # 0 THEN abortCycle(W1, W.loops[r].cur) ELSE W1

\* onabort of _startCycleLoop, registered from the loop's start to its exit;
\* forcedStop: evt.forcedStop ?? signal.reason === 'forcedStop'
onabort(W, r, forcedStop) ==
    IF W.loops[r].pc \in {"exited", "stopped"} \/ ~forcedStop THEN W
    ELSE LET W1 == [W EXCEPT !.loops[r].forced = TRUE]
         IN IF W.loops[r].cur # 0 THEN abortCycle(W1, W.loops[r].cur) ELSE W1

\* the isRunning getter: !!this.#state.running
isRunning(W) == W.state.running # 0

stop(W, forced) ==
    LET r == W.state.running
    IN IF r = 0 THEN W
       ELSE IF ~W.loops[r].aborted
            THEN onabort([W EXCEPT !.loops[r].aborted = TRUE,
                                   !.loops[r].reason =
                                       IF forced THEN "forcedStop" ELSE "gracefulStop",
                                   !.loops[r].cyclesAtStop = W.loops[r].cycleCount],
                         r, forced)
            ELSE IF forced
                 THEN onabort([W EXCEPT !.loops[r].escalated = TRUE], r, TRUE)
                 ELSE W

\* _forcedStopOnError(err): this.stop(true), generalError once that promise has
\* settled
_forcedStopOnError(W) == stop(W, TRUE)

-----------------------------------------------------------------------------
(* The per-worker execution: handleFlowExecution and the drivers' executors *)

\* flows.add(ctx) with the handleFlowExecution that runs on it
AddWorker(c, ctx, w) ==
    [c EXCEPT !.workers = [x \in DOMAIN @ \cup {ctx} |-> IF x = ctx THEN w ELSE @[x]]]

\* flows.delete(ctx); process.nextTick(startFlows)
\* a worker that leaves without queueing a dispatch pass
ReleaseUnscheduled(c, ctx) ==
    [c EXCEPT !.workers = [x \in DOMAIN @ \ {ctx} |-> @[x]]]

Release(c, ctx) ==
    [c EXCEPT !.workers = [x \in DOMAIN @ \ {ctx} |-> @[x]],
              !.ticks = @ + 1]

\* done()
done(c) == [c EXCEPT !.executorDone = TRUE]

\* a None executor that leaves the orchestrator open
noneStartOpen(c) == c

\* None: `done(); // We have only one page to fetch`
noneStart(c) == done(c)

\* a last-page test that lets one more fresh page through
reachedLastPageLate(c, page) == c.lastPage # Undefined /\ page > c.lastPage

\* TotalPages: `typeof lastPage !== 'undefined' && page >= lastPage`
reachedLastPage(c, page) == c.lastPage # Undefined /\ page >= c.lastPage

\* a HasMore executor that fetches every retry it is given
beyondLastPageNever(c, page) == FALSE

\* HasMore, for a retry: `typeof lastPage !== 'undefined' && page > lastPage`
beyondLastPage(c, page) == c.lastPage # Undefined /\ page > c.lastPage

\* The synchronous part of the driver's executor, up to the await of
\* fetchHandler: the page it takes, and whether it returns false without
\* fetching ("drop").  Returns the cycle with the worker w placed on ctx.
executorStart(c, ctx, pr) ==
    LET kind == options.paginationType
        retry == pr # NoRetry
        attemptsLeft == IF retry THEN pr.attemptsLeft
                        ELSE options.errorHandlingPolicy.retryLimit
        page == IF retry THEN pr.page
                ELSE IF kind = None THEN 1 ELSE c.nextPage
        cursor == IF retry THEN pr.cursor ELSE c.nextPageCursor
        c1 == IF retry \/ kind = None THEN c ELSE [c EXCEPT !.nextPage = @ + 1]
        \* done() / completed = true before the fetch
        c2 == CASE kind = None -> noneStart(c1)
                [] kind = TotalPages /\ ~retry /\ reachedLastPage(c, page) ->
                       [done(c1) EXCEPT !.completed = TRUE]
                [] kind = List /\ ~retry /\ c1.nextPage >= c.listLen ->
                       [done(c1) EXCEPT !.completed = TRUE]
                [] OTHER -> c1
        drop == \/ kind = HasMore /\ retry /\ beyondLastPage(c, page)
                \/ kind = List /\ ~retry /\ page >= c.listLen
        w == [phase |-> IF drop THEN "drop" ELSE "fetch", pr |-> pr, page |-> page,
              cursor |-> cursor, attemptsLeft |-> attemptsLeft]
        c2a == [c2 EXCEPT !.freshAfterDone = @ \/ (~retry /\ c.executorDone)]
        c3 == IF drop \/ page \notin PageIds THEN c2a
              ELSE [c2a EXCEPT !.fetchCount = @ + 1,
                              !.fetchAfterAbort = @ \/ c.aborted,
                              !.attempts[page] = Append(@, ctx)]
    IN AddWorker(c3, ctx, w)

\* the call of the user's fetchHandler on ctx, if the executor makes one: a
\* fetchHandler in env.stopper calls stop(true) before it returns its promise
fetchHandler(W, cid, ctx, env) ==
    IF W.cycles[cid].workers[ctx].phase = "fetch" /\ ctx \in env.stopper
    THEN stop(W, TRUE)
    ELSE W

\* executor(ctx, attemptsLeft, done, retry) as handleFlowExecution calls it
executor(W, cid, ctx, pr, env) ==
    fetchHandler(SetCy(W, cid, executorStart(W.cycles[cid], ctx, pr)), cid, ctx, env)

\* handleFlowExecution up to its first await.  env.late: the contexts whose last
\* execution is at least `interval` ago (Date.now() - lastExecution.time)
handleFlowExecution(W, cid, ctx, pr, env) ==
    LET c == W.cycles[cid]
        lastExecution == ctx \in c.lastExec
        interval == _computeInterval("interval")
        elapsedTime == IF ctx \in env.late THEN interval ELSE 0
        wait == IF options.intervalStrategy = "dynamic" THEN interval - elapsedTime
                ELSE interval
    IN IF lastExecution /\ wait > 0
       THEN SetCy(W, cid, AddWorker(c, ctx,
                [phase |-> "sleep", pr |-> pr, page |-> Undefined, cursor |-> 0,
                 attemptsLeft |-> 0]))
       ELSE IF lastExecution /\ c.executorDone /\ pr = NoRetry
            THEN SetCy(W, cid, Release(c, ctx))
            ELSE executor(SetCy(W, cid, [c EXCEPT !.lastExec = @ \cup {ctx}]),
                          cid, ctx, pr, env)

\* handleFlowExecution after `canceled = await sleep(...)`
afterSleep(W, cid, ctx, env) ==
    LET c == W.cycles[cid]
        pr == c.workers[ctx].pr
        canceled == c.aborted
    IN IF canceled \/ (c.executorDone /\ pr = NoRetry)
       THEN SetCy(W, cid, Release(c, ctx))
       ELSE executor(W, cid, ctx, pr, env)

-----------------------------------------------------------------------------
(* _updateFlowsContexts / _initFlowContext *)

\* _updateFlowsContexts(beforeCycleStart): [ok, W].  initFlowContext creates a
\* new object at every call (user.arrayLen of them when it returns an array)
\* a top-up test that forgets the fixed-concurrency mode
contextsSufficeScalar(st, concurrency) == Len(st.flowsContexts) >= concurrency

\* a dispatch pass creates no context: `if (state.isConcurrencyFixed) return
\* true`, or the for loop from flowsContexts.length to concurrency is empty
contextsSuffice(st, concurrency) ==
    st.isConcurrencyFixed \/ Len(st.flowsContexts) >= concurrency

_updateFlowsContexts(W, beforeCycleStart) ==
    LET st == W.state
        concurrency == _getConcurrencyOptions.concurrency
        remove == _getConcurrencyOptions.removeContextForRedundantFlows
        \* the contexts initFlowContext can still hand out
        room == IF user.ctxBudget > W.seq.ctx THEN user.ctxBudget - W.seq.ctx ELSE 0
    IN IF beforeCycleStart
       THEN IF ~st.isFirstContextInit /\ ~options.resetFlowContext
            THEN [ok |-> TRUE, W |-> W]
            ELSE IF user.arrayLen > 0
                 THEN IF user.arrayLen > room
                      THEN [ok |-> FALSE, W |-> _forcedStopOnError(W)]
                      ELSE [ok |-> TRUE,
                            W |-> [W EXCEPT !.state.isConcurrencyFixed = TRUE,
                                            !.state.flowsContexts =
                                                Fresh(W.seq.ctx, user.arrayLen),
                                            !.seq.ctx = @ + user.arrayLen]]
                 ELSE IF concurrency > room
                      THEN [ok |-> FALSE,
                            W |-> _forcedStopOnError([W EXCEPT !.seq.ctx = @ + room])]
                      ELSE LET newFlowsContexts == Fresh(W.seq.ctx, concurrency)
                               redundantFlowsContexts ==
                                   IF remove THEN << >>
                                   ELSE SliceFrom(st.flowsContexts, Len(newFlowsContexts))
                           IN [ok |-> TRUE,
                               W |-> [W EXCEPT !.state.isConcurrencyFixed = FALSE,
                                               !.state.flowsContexts =
                                                   newFlowsContexts \o redundantFlowsContexts,
                                               !.seq.ctx = @ + concurrency]]
       ELSE IF contextsSuffice(st, concurrency)
            THEN [ok |-> TRUE, W |-> W]
            ELSE LET n == concurrency - Len(st.flowsContexts)
                 IN IF n > room
                    THEN [ok |-> FALSE,
                          W |-> _forcedStopOnError(
                                    [W EXCEPT !.state.flowsContexts =
                                                  @ \o Fresh(W.seq.ctx, room),
                                              !.seq.ctx = @ + room])]
                    ELSE [ok |-> TRUE,
                          W |-> [W EXCEPT !.state.flowsContexts = @ \o Fresh(W.seq.ctx, n),
                                          !.seq.ctx = @ + n]]

-----------------------------------------------------------------------------
(* _startFlowOrchestrator: finish, startFlows *)

\* finish()
finish(W, cid) == [W EXCEPT !.cycles[cid].resolved = TRUE]

\* a retry that may lose its last context to a later one
keepsNone(Q, compared) == FALSE

\* `if (compared.availableFlows.size <= 1) continue; // Leave at least one flow`
keepsOne(Q, compared) == Len(Q.avail[compared]) <= 1

RECURSIVE claimFlows(_, _, _, _)
\* `for (const ctx of availableFlows)`: pending retry i claims free contexts,
\* taking one from an earlier retry only if that one keeps another.
\* Q.avail[i]: the compatibility's availableFlows; Q.map: compatibilityMap (0: none)
claimFlows(Q, i, availableFlows, k) ==
    IF k > Len(availableFlows) THEN Q
    ELSE LET ctx == availableFlows[k]
             compared == Q.map[ctx]
         IN IF compared # 0 /\ keepsOne(Q, compared)
            THEN claimFlows(Q, i, availableFlows, k + 1)
            ELSE LET Q1 == IF compared # 0
                           THEN [Q EXCEPT !.avail[compared] =
                                     SelectSeq(@, LAMBDA x : x # ctx)]
                           ELSE Q
                 IN claimFlows([Q1 EXCEPT !.avail[i] = Append(@, ctx), !.map[ctx] = i],
                               i, availableFlows, k + 1)

\* availableFlows that forgets which contexts have attempted the page
availableFlowsAny(pendingRetry, freeContexts, nContexts) == freeContexts

\* availableFlows of a pending retry: every free context once the retry has been
\* on all contexts, else the free contexts it has not been on
availableFlows(pendingRetry, freeContexts, nContexts) ==
    IF Cardinality(pendingRetry.flows) >= nContexts THEN freeContexts
    ELSE SelectSeq(freeContexts, LAMBDA x : x \notin pendingRetry.flows)

RECURSIVE buildRetryQueue(_, _, _, _)
\* `for (const pendingRetry of pendingRetries)` with retryDistinctFlows:
\* Q = [prs, avail, map, queue, left]; queue holds indices into prs
buildRetryQueue(Q, i, freeContexts, nContexts) ==
    IF i > Len(Q.prs) THEN Q
    ELSE LET pendingRetry == Q.prs[i]
             reset == Cardinality(pendingRetry.flows) >= nContexts
             Q1 == IF reset THEN [Q EXCEPT !.prs[i].flows = {}] ELSE Q
             Q2 == claimFlows(Q1, i,
                              availableFlows(pendingRetry, freeContexts, nContexts), 1)
         IN IF Len(Q2.avail[i]) > 0
            THEN LET Q3 == [Q2 EXCEPT !.queue = Append(@, i), !.left = @ - 1]
                 IN IF Q3.left <= 0 THEN Q3
                    ELSE buildRetryQueue(Q3, i + 1, freeContexts, nContexts)
            ELSE buildRetryQueue(Q2, i + 1, freeContexts, nContexts)

\* pendingRetries.splice(pendingRetries.indexOf(pendingRetry), 1)
RemoveRetry(prs, pendingRetry) ==
    LET at == {i \in DOMAIN prs : prs[i] = pendingRetry}
    IN IF at = {} THEN prs
       ELSE LET first == CHOOSE i \in at : \A j \in at : i <= j
            IN SubSeq(prs, 1, first - 1) \o SubSeq(prs, first + 1, Len(prs))

RECURSIVE dispatchRetries(_, _, _, _, _, _)
\* `for (const { pendingRetry, availableFlows } of retryQueue)`:
\* [W, free, error, left]; free: freeContexts without the contexts taken,
\* left: freeFlowsLeft after the retry queue was built
dispatchRetries(W, cid, Q, k, free, env) ==
    IF k > Len(Q.queue) THEN [W |-> W, free |-> free, error |-> FALSE, left |-> Q.left]
    ELSE LET i == Q.queue[k]
         IN IF Q.avail[i] = << >>
            THEN [W |-> [_forcedStopOnError(W)
                            EXCEPT !.loops[W.cycles[cid].run].fatal = TRUE],
                  free |-> free, error |-> TRUE, left |-> Q.left]
            ELSE LET ctx == Head(Q.avail[i])
                     W1 == [W EXCEPT !.cycles[cid].pendingRetries =
                                RemoveRetry(@, Q.prs[i])]
                 IN dispatchRetries(handleFlowExecution(W1, cid, ctx, Q.prs[i], env),
                                    cid, Q, k + 1,
                                    SelectSeq(free, LAMBDA x : x # ctx), env)

RECURSIVE dispatchFresh(_, _, _, _, _, _)
\* `for (const ctx of freeContexts)`: retries first-in first-out without
\* retryDistinctFlows, then fresh tasks until done() has been called; the loop
\* breaks when --freeFlowsLeft reaches 0
dispatchFresh(W, cid, freeContexts, k, freeFlowsLeft, env) ==
    IF k > Len(freeContexts) \/ freeFlowsLeft <= 0 THEN W
    ELSE LET c == W.cycles[cid]
             shift == ~options.errorHandlingPolicy.retryDistinctFlows
                          /\ c.pendingRetries # << >>
             pendingRetry == IF shift THEN Head(c.pendingRetries) ELSE NoRetry
             W1 == IF shift THEN [W EXCEPT !.cycles[cid].pendingRetries = Tail(@)] ELSE W
         IN IF c.executorDone /\ pendingRetry = NoRetry THEN W1
            ELSE dispatchFresh(
                     handleFlowExecution(W1, cid, freeContexts[k], pendingRetry, env),
                     cid, freeContexts, k + 1, freeFlowsLeft - 1, env)

\* the concurrency of a pass without the first-page rule of TotalPages
passConcurrencyFull(W, c) ==
    IF _getConcurrencyOptions.concurrencySupported /\ W.state.isConcurrencyFixed
    THEN Len(W.state.flowsContexts)
    ELSE _getConcurrencyOptions.concurrency

\* the first-page rule applied in scalar mode only
mustNotFanOutScalar(W, c) ==
    /\ options.paginationType = TotalPages
    /\ ~options.paginationPrefetch
    /\ ~c.firstPageReady
    /\ ~W.state.isConcurrencyFixed

\* `paginationType === TotalPages && !paginationPrefetch && !firstPageReady`
mustNotFanOut(W, c) ==
    /\ options.paginationType = TotalPages
    /\ ~options.paginationPrefetch
    /\ ~c.firstPageReady

\* the effective concurrency of a dispatch pass
passConcurrency(W, c) ==
    IF mustNotFanOut(W, c)
    THEN 1
    ELSE IF _getConcurrencyOptions.concurrencySupported /\ W.state.isConcurrencyFixed
         THEN Len(W.state.flowsContexts)
         ELSE _getConcurrencyOptions.concurrency

\* the retry queue of startFlows (retryDistinctFlows), built and dispatched
retryPass(W, cid, Q, freeContexts, env) ==
    dispatchRetries([W EXCEPT !.cycles[cid].pendingRetries = Q.prs],
                    cid, Q, 1, freeContexts, env)

\* the rest of startFlows after the retry queue: R = [W, free, error, left]
freshPass(R, cid, env) ==
    IF R.error \/ R.left <= 0 THEN R.W
    ELSE dispatchFresh(R.W, cid, R.free, 1, R.left, env)

\* the dispatch of startFlows once the free slots are known
dispatch(W, cid, freeFlowsLeft, env) ==
    LET c == W.cycles[cid]
        freeContexts == SelectSeq(W.state.flowsContexts, LAMBDA x : x \notin flows(c))
    IN freshPass(
           IF options.errorHandlingPolicy.retryDistinctFlows
           THEN retryPass(W, cid,
                          buildRetryQueue(
                              [prs |-> c.pendingRetries,
                               avail |-> [i \in DOMAIN c.pendingRetries |-> << >>],
                               map |-> [x \in Range(W.state.flowsContexts) |-> 0],
                               queue |-> << >>,
                               left |-> freeFlowsLeft],
                              1, freeContexts, Len(W.state.flowsContexts)),
                          freeContexts, env)
           ELSE [W |-> W, free |-> freeContexts, error |-> FALSE, left |-> freeFlowsLeft],
           cid, env)

\* startFlows after this._updateFlowsContexts() has returned: U = [ok, W]
topUp(U, cid, env) ==
    LET c == U.W.cycles[cid]
        freeFlowsLeft == passConcurrency(U.W, c) - Cardinality(flows(c))
    IN IF ~U.ok THEN [U.W EXCEPT !.loops[c.run].fatal = TRUE]
       ELSE IF freeFlowsLeft <= 0 THEN U.W
       ELSE dispatch(U.W, cid, freeFlowsLeft, env)

\* a test for the end of the cycle that forgets the queued retries
quiescentButRetries(c) == c.executorDone /\ flows(c) = {}

\* `executorDone && !flows.size && !pendingRetries.length`
quiescent(c) == c.executorDone /\ flows(c) = {} /\ c.pendingRetries = << >>

startFlows(W, cid, env) ==
    LET c == W.cycles[cid]
    IN IF c.resolved THEN W
       ELSE IF quiescent(c)
            THEN finish(W, cid)
            ELSE topUp(_updateFlowsContexts(W, FALSE), cid, env)

\* what the contexts were when the cycle dispatched its first workers
firstPass(W, cid) ==
    IF flows(W.cycles[cid]) = {} THEN W
    ELSE [W EXCEPT !.cycles[cid].ctxsAtStart = Len(W.state.flowsContexts),
                   !.cycles[cid].concAtStart = options.concurrency]

\* _startFlowOrchestrator(executor, signal): the promise executor
_startFlowOrchestrator(W, cid, env) ==
    IF W.cycles[cid].aborted
    THEN [W EXCEPT !.cycles[cid].started = TRUE, !.cycles[cid].resolved = TRUE]
    ELSE firstPass(startFlows([W EXCEPT !.cycles[cid].started = TRUE], cid, env), cid)

-----------------------------------------------------------------------------
(* The drivers' executors after the fetch, and the rest of handleFlowExecution *)

\* The source has user.totalPages pages: resolveTotalPages returns that number,
\* resolveHasMore and resolveCursor say "more" on the pages before the last
more(page) == page < user.totalPages

\* the test one attempt too early
exhaustedEarly(attemptsLeft) == attemptsLeft <= 1

\* `if (attemptsLeft <= 0)`: the failed attempt was the page's last
exhausted(attemptsLeft) == attemptsLeft <= 0

\* a last page taken from whichever "no more" answer came last
lowersLastPageAlways(c, page) == TRUE

\* HasMore: `typeof lastPage === 'undefined' || page < lastPage`
lowersLastPage(c, page) == c.lastPage = Undefined \/ page < c.lastPage

\* a Cursor cycle that goes on after a failed page when the policy lets it
cursorExhaustedSkips(c) == IF canSkipPage(c) THEN c ELSE done(c)

\* Cursor, `if (attemptsLeft <= 0) { done(); ...failedPageList.add(pageNum) }`:
\* c has the page in its failedPageList
cursorExhausted(c) == done(c)

\* totalErrorCount that counts a page's last failure only
countFinalError(c, attemptsLeft) ==
    IF attemptsLeft <= 0 THEN [c EXCEPT !.totalErrorCount = @ + 1] ELSE c

\* summaryHelper.stats.totalErrorCount++ of a failed attempt
countError(c, attemptsLeft) == [c EXCEPT !.totalErrorCount = @ + 1]

\* the executor from the settling of fetchHandler to its return, for the worker
\* on ctx; res: "ok", or "error" (fetchHandler threw, or the resolver threw or
\* returned an invalid value: the same catch block handles both)
executorEnd(c, ctx, res) ==
    LET kind == options.paginationType
        w == c.workers[ctx]
        page == w.page
        failed == countError(c, w.attemptsLeft)
        listed == [failed EXCEPT !.failedPageList = SetAdd(@, page)]
        counted == fail(listed, IF kind = List THEN Undefined ELSE page)
    IN IF res = "ok"
       THEN CASE kind = None -> [c EXCEPT !.completed = TRUE]
              [] kind = TotalPages ->
                     success([c EXCEPT !.lastPage = user.totalPages,
                                       !.totalPageCount = user.totalPages])
              [] kind = HasMore ->
                     success(IF more(page)
                             THEN c
                             ELSE IF lowersLastPage(c, page)
                                  THEN [done(c) EXCEPT !.completed = TRUE,
                                                       !.lastPage = page,
                                                       !.totalPageCount = page]
                                  ELSE [done(c) EXCEPT !.completed = TRUE])
              [] kind = Cursor ->
                     IF more(page) THEN [c EXCEPT !.nextPageCursor = page]
                     ELSE [done(c) EXCEPT !.completed = TRUE]
              [] OTHER -> success(c)
       ELSE IF ~exhausted(w.attemptsLeft) THEN failed
            ELSE CASE kind = None -> listed
                   [] kind = Cursor -> cursorExhausted(listed)
                   [] OTHER -> IF canSkipPage(counted) THEN counted ELSE done(counted)

\* a driver that hands over the responses of successful attempts only
handlesSuccessOnly(res) == res = "ok"

\* the executors call _handleResponse in the `finally` of the resolver's try
\* block (None and List: right after the fetch): for every response there was
handlesResponse(res) == res # "error"

\* _handleResponse(ctx, response): nothing without a responseHandler; else the
\* handler is called in an async function that nothing awaits.  state.handling
\* counts the responseHandler calls that have not settled
_handleResponse(W, cid) ==
    IF user.responseHandler = "none" THEN W
    ELSE [W EXCEPT !.state.handling = @ + 1, !.cycles[cid].handled = @ + 1]

\* the executor's handling of what fetchHandler gave, for a cycle with a
\* responseHandler: res = "error" is a fetchHandler that threw
respond(W, cid, res) ==
    IF user.responseHandler = "none" THEN W
    ELSE IF handlesResponse(res)
         THEN _handleResponse([W EXCEPT !.cycles[cid].responses =
                                            IF res # "error" THEN @ + 1 ELSE @], cid)
         ELSE [W EXCEPT !.cycles[cid].responses = IF res # "error" THEN @ + 1 ELSE @]

\* a rejection of responseHandler that reaches the executor of the cycles that
\* are running and counts as a failed attempt there
responseHandleErrorFails(W) ==
    [W EXCEPT !.state.responseHandleErrors = @ + 1,
              !.cycles = [cid \in DOMAIN @ |->
                             [@[cid] EXCEPT !.totalErrorCount = @ + 1]]]

\* the catch block of _handleResponse: this._log('responseHandleError', e)
responseHandleError(W) == [W EXCEPT !.state.responseHandleErrors = @ + 1]

\* a responseHandler call settles
handlerSettled(W) ==
    LET W1 == [W EXCEPT !.state.handling = @ - 1]
    IN IF user.responseHandler = "throws" THEN responseHandleError(W1) ELSE W1

\* a failed attempt that is never queued again
retriableNever(attemptsLeft) == FALSE

\* `if (attemptsLeft > 0)`: the failed attempt is queued as a pending retry
retriable(attemptsLeft) == attemptsLeft > 0

\* handleFlowExecution from the return of the executor: retry is what the
\* executor returned (FALSE: `false`)
afterExecutor(c, ctx, retry) ==
    LET w == c.workers[ctx]
        pendingRetry ==
            [page |-> w.page, cursor |-> w.cursor,
             flows |-> (IF w.pr # NoRetry THEN w.pr.flows ELSE {}) \cup {ctx},
             attemptsLeft |-> w.attemptsLeft - 1]
        c1 == IF ~retry THEN [c EXCEPT !.firstPageReady = TRUE]
              ELSE IF retriable(w.attemptsLeft)
                   THEN [c EXCEPT !.pendingRetries = Append(@, pendingRetry),
                                  !.failures = @ + 1]
                   ELSE [c EXCEPT !.failures = @ + 1]
    IN Release(c1, ctx)

\* CycleSummaryHelper.summarize() after the cycle handler's last statements
summarize(c) ==
    LET kind == options.paginationType
        counted == IF kind \in {TotalPages, HasMore} THEN complete(c, c.lastPage)
                   ELSE c
    IN [completed |-> IF kind \in {TotalPages, HasMore, List}
                      THEN c.completed /\ canSkipPage(counted)
                      ELSE c.completed,
        totalPageCount |-> CASE kind = Cursor -> c.nextPage - 1
                             [] kind = List -> c.nextPage
                             [] OTHER -> c.totalPageCount,
        failedPageList |-> c.failedPageList,
        totalErrorCount |-> c.totalErrorCount]

NoSummary ==
    [cycle |-> 0, run |-> 0,
     summary |-> [completed |-> FALSE, totalPageCount |-> 0,
                  failedPageList |-> << >>, totalErrorCount |-> 0],
     aborted |-> FALSE, reachedEnd |-> FALSE, inFlight |-> 0, failures |-> 0,
     fetchCount |-> 0, attempts |-> [p \in PageIds |-> << >>], pending |-> 0]

\* the cycleSummary event of cycle cid, with what the cycle was like
emitted(W, cid) ==
    LET c == W.cycles[cid]
    IN [cycle |-> cid, run |-> c.run, summary |-> summarize(c),
        aborted |-> c.aborted,
        reachedEnd |-> c.completed,
        inFlight |-> Cardinality({x \in flows(c) : c.workers[x].phase = "fetch"}),
        failures |-> c.failures,
        fetchCount |-> c.fetchCount, attempts |-> c.attempts,
        pending |-> Len(c.pendingRetries)]

-----------------------------------------------------------------------------
(* _startCycleLoop *)

NewLoop(once) ==
    [aborted |-> FALSE,       \* the run's signal
     reason |-> "",
     forced |-> FALSE,        \* onabort has seen a forced stop
     cur |-> 0,               \* the cycle of currentCycleAbortController
     pc |-> "init",           \* where the async function stands
     cycleCount |-> 0,        \* cycle handler invocations
     summaries |-> 0,         \* cycleSummary events
     cyclesAtStop |-> 0,      \* cycleCount when the run's signal was aborted
     escalated |-> FALSE,     \* stop(true) was called after the run's signal was aborted
     resets |-> 0,            \* cycle starts of this run that called initThisContext
     fatal |-> FALSE,         \* _forcedStopOnError was called for an init error in this run
     held |-> NoSummary,      \* the summary the pending summaryHandler was called with
     handleErrors |-> 0,      \* summaryHandleError logs
     once |-> once]           \* started by startOnce()

\* the loop body from the return of _updateFlowsContexts(true) (U = [ok, W]) to
\* the first await of the cycle handler
startCycle(U, r, cid, env) ==
    IF ~U.ok
    THEN [U.W EXCEPT !.loops[r].pc = "exited",
                     !.loops[r].fatal = TRUE,
                     !.loops[r].cur = 0,
                     !.cycles = [x \in DOMAIN @ \ {cid} |-> @[x]],
                     !.seq.cycle = @ - 1]
    ELSE IF options.paginationType = List
         THEN [U.W EXCEPT !.state.isFirstContextInit = FALSE,
                          !.loops[r].cycleCount = @ + 1,
                          !.loops[r].pc = "resolveList"]
         ELSE _startFlowOrchestrator(
                  [U.W EXCEPT !.state.isFirstContextInit = FALSE,
                              !.loops[r].cycleCount = @ + 1,
                              !.loops[r].pc = "cycle"], cid, env)

\* the loop body from `if (this._updateFlowsContexts(true))` on; cid is the
\* cycle of the new currentCycleAbortController
beginCycle(W, r, cid, env) ==
    startCycle(
        _updateFlowsContexts(
            [W EXCEPT !.seq.cycle = cid,
                      !.loops[r].cur = cid,
                      !.cycles = [x \in DOMAIN @ \cup {cid} |->
                                     IF x = cid THEN NewCycle(r) ELSE @[x]]],
            TRUE),
        r, cid, env)

\* a reset of the global context at every cycle start, the first included
resetsThisContextAlways(st) == options.resetThisContext

\* `this.options.resetThisContext && !this.#state.isFirstContextInit`
resetsThisContext(st) == options.resetThisContext /\ ~st.isFirstContextInit

\* the while loop from its condition to its first await (or to its exit).
\* state.thisInits counts the calls of initThisContext
loopIteration(W, r, env) ==
    IF W.loops[r].aborted THEN [W EXCEPT !.loops[r].pc = "exited"]
    ELSE IF resetsThisContext(W.state)
         THEN IF W.state.thisInits >= user.thisBudget
              THEN [_forcedStopOnError([W EXCEPT !.state.thisInits = @ + 1,
                                                 !.loops[r].cur = 0])
                       EXCEPT !.loops[r].pc = "exited", !.loops[r].fatal = TRUE]
              ELSE beginCycle([W EXCEPT !.state.thisInits = @ + 1,
                                        !.loops[r].resets = @ + 1],
                              r, W.seq.cycle + 1, env)
         ELSE beginCycle(W, r, W.seq.cycle + 1, env)

\* from the return of the cycle handler to the loop's next await: the summary
\* is emitted, then the loop sleeps for cycleInterval or goes round.  late: the
\* cycle took at least cycleInterval (Date.now() - startTime)
afterCycle(W, r, late, env) ==
    LET cid == W.loops[r].cur
        interval == _computeInterval("cycleInterval")
        wait == IF options.cycleIntervalStrategy = "dynamic"
                THEN interval - (IF late THEN interval ELSE 0)
                ELSE interval
        W1 == [W EXCEPT !.cycles[cid].summarized = TRUE,
                        !.loops[r].summaries = @ + 1]
    IN IF wait > 0 THEN [W1 EXCEPT !.loops[r].pc = "sleep"]
       ELSE loopIteration(W1, r, env)

\* a loop that does not wait for options.summaryHandler
hasNoSummaryHandler(u) == FALSE

\* `if (this.options.summaryHandler)`: the loop awaits the handler before it emits
hasSummaryHandler(u) == u.summaryHandler # "none"

\* the cycle handler has returned its summary and options.summaryHandler is
\* called with it: the loop awaits what the handler returned
callSummaryHandler(W, r) ==
    [W EXCEPT !.loops[r].pc = "summaryHandler",
              !.loops[r].held = emitted(W, W.loops[r].cur)]

\* the catch block around the await of summaryHandler
summaryHandleError(W, r) == [W EXCEPT !.loops[r].handleErrors = @ + 1]

\* the awaited summaryHandler has settled: a rejection is logged, and the loop
\* goes on to emit the summary
afterSummaryHandler(W, r, late, env) ==
    afterCycle([(IF user.summaryHandler = "throws" THEN summaryHandleError(W, r) ELSE W)
                   EXCEPT !.loops[r].held = NoSummary],
               r, late, env)

\* the environment of a call made from the reaction of a promise (a microtask)
MicroEnv == [late |-> {}, stopper |-> {}, micro |-> TRUE]

\* _emitNextTick(eventName): process.nextTick(() => this.emit(eventName)).
\* state.events is the part of the nextTick queue that holds these callbacks
\* (kept when a listener is registered); micro: the callback was queued while
\* the microtask queue was being drained, so it runs when that queue is empty
_emitNextTick(W, eventName, micro) ==
    IF ~user.listens THEN W
    ELSE [W EXCEPT !.state.events = Append(@, [name |-> eventName, micro |-> micro])]

\* _startCycleLoop(signal) as start() calls it: the loop runs to its first await
_startCycleLoop(W, once, env) ==
    loopIteration([W EXCEPT !.seq.run = @ + 1, !.loops = Append(@, NewLoop(once))],
                  W.seq.run + 1, env)

\* a fetchHandler of the first pass calls start(): state.running is not set
\* yet, so that call starts a loop of its own and sets state.running to it
reentrantStart(W, reenter, env) ==
    IF reenter
    THEN [_startCycleLoop(W, FALSE, env) EXCEPT !.state.running = W.seq.run + 1]
    ELSE W

\* start() without its test of state.running
startAlways(W, once, reenter, env) ==
    [reentrantStart(_startCycleLoop(W, once, env), reenter, env)
        EXCEPT !.state.running = W.seq.run + 1]

\* start(): the loop runs to its first await before state.running is set.
\* reenter: the last fetchHandler called in that first pass calls start() itself
start(W, once, reenter, env) ==
    IF isRunning(W) THEN W
    ELSE _emitNextTick([reentrantStart(_startCycleLoop(W, once, env), reenter, env)
                           EXCEPT !.state.running = W.seq.run + 1],
                       "started", "micro" \in DOMAIN env)

\* startOnce() without its stop()
startOnceUnstopped(W, env) == start(W, TRUE, FALSE, env)

\* startOnce(): start(), then stop() if it started
startOnce(W, env) ==
    IF isRunning(W) THEN W ELSE stop(start(W, TRUE, FALSE, env), FALSE)

\* the finally callback without `state.running = undefined`
finallyKeep(W, r) == [W EXCEPT !.loops[r].pc = "stopped"]

\* running.promise.finally(...): once it has run, the promise start() stored in
\* state.running (the one stop() returns) is fulfilled
finally(W, r) ==
    IF W.state.running = r
    THEN _emitNextTick([W EXCEPT !.loops[r].pc = "stopped", !.state.running = 0],
                       "stopped", TRUE)
    ELSE [W EXCEPT !.loops[r].pc = "stopped"]

-----------------------------------------------------------------------------
(* Scheduling *)

\* the head of the nextTick queue was queued by the running task: it runs
\* before any microtask
TaskTick == state.events # << >> /\ ~Head(state.events).micro

\* a continuation is queued that runs before any I/O completion, timer or
\* outside call: a nextTick callback, the reaction of a settled promise, a
\* sleep whose signal has fired
Urgent ==
    \/ \E cid \in DOMAIN cycles :
           \/ cycles[cid].ticks > 0
           \/ \E x \in flows(cycles[cid]) :
                  \/ cycles[cid].workers[x].phase = "drop"
                  \/ cycles[cid].workers[x].phase = "sleep" /\ cycles[cid].aborted
    \/ \E r \in DOMAIN loops :
           \/ loops[r].pc = "exited"
           \/ loops[r].pc = "sleep" /\ loops[r].aborted
           \/ /\ loops[r].pc = "cycle"
              /\ loops[r].cur \in DOMAIN cycles
              /\ cycles[loops[r].cur].resolved
    \/ state.events # << >>
    \/ state.awaited # 0 /\ loops[state.awaited].pc = "stopped"

\* What is left of a cycle once its summary is out: summarize() has copied the
\* statistics, so the closure's counters and page bookkeeping can no longer be
\* observed; the executions still in flight (they hold their contexts) and the
\* queued ticks are all that remains
Stale(c) ==
    [NewCycle(c.run) EXCEPT
        !.aborted = c.aborted, !.started = c.started, !.resolved = c.resolved,
        !.summarized = TRUE, !.ticks = c.ticks,
        !.fetchAfterAbort = c.fetchAfterAbort,
        !.freshAfterDone = c.freshAfterDone,
        !.responses = c.responses, !.handled = c.handled,
        !.workers = [x \in flows(c) |->
                        [phase |-> c.workers[x].phase, pr |-> NoRetry,
                         page |-> Undefined, cursor |-> 0, attemptsLeft |-> 0]]]

\* closures nothing refers to any more: a cycle whose summary is out and that
\* has neither a worker nor a queued tick left
Collect(W) ==
    LET live == {cid \in DOMAIN W.cycles :
                    LET c == W.cycles[cid]
                    IN ~c.summarized \/ flows(c) # {} \/ c.ticks > 0}
    IN [cid \in live |-> IF W.cycles[cid].summarized THEN Stale(W.cycles[cid])
                         ELSE W.cycles[cid]]

\* the step's result, within the bounds of the model
Commit(W) ==
    /\ W.seq.cycle <= MaxCycles
    /\ W.seq.run <= MaxRuns
    /\ \A cid \in DOMAIN W.cycles : W.cycles[cid].nextPage <= PageLimit + 2
    /\ state' = W.state
    /\ loops' = W.loops
    /\ cycles' = Collect(W)
    /\ seq' = W.seq

\* the inputs of a dispatch pass: which free contexts ran long enough ago, and
\* which context's fetchHandler (if any) calls stop(true) while it is invoked
Lates(c) ==
    IF options.intervalStrategy = "dynamic" /\ _computeInterval("interval") > 0
    THEN SUBSET (c.lastExec \ flows(c))
    ELSE {{}}

Stoppers ==
    IF state.running = 0 \/ ~user.stops THEN {{}}
    ELSE {{}} \cup {{x} : x \in 1..(seq.ctx + options.concurrency)}

NoEnv == [late |-> {}, stopper |-> {}]

\* a call of the public API made from outside and what it gave back.  started:
\* what start() returned; promise: the run whose promise stop() / startOnce()
\* returned (0: Promise.resolve(), a promise that is already resolved);
\* events: the events the call queued with _emitNextTick
NoCall == [op |-> "", started |-> FALSE, promise |-> 0, events |-> {}]

\* start() on the state W
startCall(W) ==
    [op |-> "start", started |-> ~isRunning(W), promise |-> 0,
     events |-> IF isRunning(W) THEN {} ELSE {"started"}]

\* startOnce() on the state W, W1 being the state it leaves
startOnceCall(W, W1) ==
    [op |-> "startOnce", started |-> ~isRunning(W),
     promise |-> IF isRunning(W) THEN 0 ELSE W1.state.running,
     events |-> IF isRunning(W) THEN {} ELSE {"started"}]

\* stop(forced) on the state W: it returns state.running.promise
stopCall(W) ==
    [op |-> "stop", started |-> FALSE, promise |-> W.state.running, events |-> {}]

-----------------------------------------------------------------------------
(* Actions *)

\* start() called from outside, on an idle scraper
Start(reenter) ==
    /\ ~Urgent
    /\ state.running = 0
    /\ reenter => user.starts
    /\ \E W \in {start(World, FALSE, reenter, NoEnv)} :
           /\ reenter => \E cid \in DOMAIN W.cycles : W.cycles[cid].fetchCount > 0
           /\ Commit(W)
    /\ lastSummary' = NoSummary
    /\ lastCall' = startCall(World)
    /\ UNCHANGED <<options, user>>

\* startOnce() called from outside, on an idle scraper
StartOnce ==
    /\ ~Urgent
    /\ state.running = 0
    /\ \E W \in {startOnce(World, NoEnv)} :
           /\ Commit(W)
           /\ lastCall' = startOnceCall(World, W)
    /\ lastSummary' = NoSummary
    /\ UNCHANGED <<options, user>>

\* stop(forced) called from outside, on a running scraper
Stop(forced) ==
    /\ ~Urgent
    /\ state.running # 0
    /\ Commit(stop(World, forced))
    /\ lastSummary' = NoSummary
    /\ lastCall' = stopCall(World)
    /\ UNCHANGED <<options, user>>

\* `await stop(forced); start()` called from outside, on a running scraper: the
\* call of stop; state.awaited is the run whose promise the caller awaits
StopAwait(forced) ==
    /\ ~Urgent
    /\ state.running # 0
    /\ state.awaited = 0
    /\ Commit([stop(World, forced) EXCEPT !.state.awaited = state.running])
    /\ lastSummary' = NoSummary
    /\ lastCall' = stopCall(World)
    /\ UNCHANGED <<options, user>>

\* the promise stop() returned has been fulfilled: the caller's await resumes,
\* in a microtask, and calls start()
Resume ==
    /\ ~TaskTick
    /\ state.awaited # 0
    /\ loops[state.awaited].pc = "stopped"
    /\ Commit(start([World EXCEPT !.state.awaited = 0], FALSE, FALSE, MicroEnv))
    /\ lastSummary' = NoSummary
    /\ lastCall' = startCall(World)
    /\ UNCHANGED <<options, user>>

\* a lifecycle event is delivered to its listeners: the nextTick queue runs when
\* the task that queued the callback has returned, or when the microtask queue
\* is empty
Emit ==
    /\ state.events # << >>
    /\ \/ TaskTick
       \/ /\ ~(state.awaited # 0 /\ loops[state.awaited].pc = "stopped")
          /\ \A r \in DOMAIN loops :
                 /\ loops[r].pc # "exited"
                 /\ ~(loops[r].pc = "sleep" /\ loops[r].aborted)
                 /\ ~(/\ loops[r].pc = "cycle"
                      /\ loops[r].cur \in DOMAIN cycles
                      /\ cycles[loops[r].cur].resolved)
    /\ Commit([World EXCEPT !.state.events = Tail(@)])
    /\ lastSummary' = NoSummary
    /\ lastCall' = NoCall
    /\ UNCHANGED <<options, user>>

\* start() called from outside, on a running scraper
StartRunning ==
    /\ ~Urgent
    /\ state.running # 0
    /\ Commit(start(World, FALSE, FALSE, NoEnv))
    /\ lastSummary' = NoSummary
    /\ lastCall' = startCall(World)
    /\ UNCHANGED <<options, user>>

\* stop(forced) called from outside, on an idle scraper
StopIdle(forced) ==
    /\ ~Urgent
    /\ state.running = 0
    /\ Commit(stop(World, forced))
    /\ lastSummary' = NoSummary
    /\ lastCall' = stopCall(World)
    /\ UNCHANGED <<options, user>>

\* options.concurrency = n (the validating setter of the options proxy)
SetConcurrency(n) ==
    /\ ~Urgent
    /\ n # options.concurrency
    /\ options' = [options EXCEPT !.concurrency = n]
    /\ lastSummary' = NoSummary
    /\ lastCall' = NoCall
    /\ UNCHANGED <<user, state, loops, cycles, seq>>

\* a queued process.nextTick(startFlows) runs
Tick(cid) ==
    /\ cycles[cid].ticks > 0
    /\ \E late \in Lates(cycles[cid]), stopper \in Stoppers :
           Commit(startFlows([World EXCEPT !.cycles[cid].ticks = @ - 1], cid,
                             [late |-> late, stopper |-> stopper]))
    /\ lastSummary' = NoSummary
    /\ lastCall' = NoCall
    /\ UNCHANGED <<options, user>>

\* the sleep of a paced worker ends: its timer fires, or its signal has fired
WakeWorker(cid, ctx) ==
    /\ cycles[cid].workers[ctx].phase = "sleep"
    /\ cycles[cid].aborted \/ ~Urgent
    /\ \E stopper \in Stoppers :
           Commit(afterSleep(World, cid, ctx, [late |-> {}, stopper |-> stopper]))
    /\ lastSummary' = NoSummary
    /\ lastCall' = NoCall
    /\ UNCHANGED <<options, user>>

\* an executor that returned false without fetching: handleFlowExecution goes on
DropReturn(cid, ctx) ==
    /\ cycles[cid].workers[ctx].phase = "drop"
    /\ Commit(SetCy(World, cid, afterExecutor(cycles[cid], ctx, FALSE)))
    /\ lastSummary' = NoSummary
    /\ lastCall' = NoCall
    /\ UNCHANGED <<options, user>>

\* a fetchHandler call settles; the executor and handleFlowExecution run on
FetchReturn(cid, ctx, res) ==
    /\ ~Urgent
    /\ cycles[cid].workers[ctx].phase = "fetch"
    /\ Commit(respond(SetCy(World, cid,
                          afterExecutor(executorEnd(cycles[cid], ctx, res), ctx,
                                        res # "ok")),
                    cid, res))
    /\ lastSummary' = NoSummary
    /\ lastCall' = NoCall
    /\ UNCHANGED <<options, user>>

\* a responseHandler call settles: it returns, or it throws and the error is logged
HandlerReturn ==
    /\ state.handling > 0
    /\ Commit(handlerSettled(World))
    /\ lastSummary' = NoSummary
    /\ lastCall' = NoCall
    /\ UNCHANGED <<options, user>>

\* a fetchHandler call settles as the user's script says: the first fetch of a
\* page of user.throwsOnce throws, every other fetch succeeds
ScriptedReturn(cid, ctx) ==
    /\ cycles[cid].workers[ctx].page \in PageIds
    /\ FetchReturn(cid, ctx,
                   IF /\ cycles[cid].workers[ctx].page \in user.throwsOnce
                      /\ Len(cycles[cid].attempts[cycles[cid].workers[ctx].page]) = 1
                   THEN "error" ELSE "ok")

\* resolveList settles: the List handler starts its orchestrator, or returns an
\* empty summary when the list is empty
ResolveList(r) ==
    /\ ~Urgent
    /\ loops[r].pc = "resolveList"
    /\ LET cid == loops[r].cur
           W == [World EXCEPT !.loops[r].pc = "cycle",
                              !.cycles[cid].listLen = user.listLen]
       IN IF user.listLen > 0
          THEN \E stopper \in Stoppers :
                   Commit(_startFlowOrchestrator(W, cid, [late |-> {}, stopper |-> stopper]))
          ELSE Commit([W EXCEPT !.cycles[cid].resolved = TRUE])
    /\ lastSummary' = NoSummary
    /\ lastCall' = NoCall
    /\ UNCHANGED <<options, user>>

\* the orchestrator's promise has resolved: the cycle handler returns its
\* summary; the loop calls summaryHandler with it and awaits that, or emits it
\* and sleeps or goes round
CycleEnd(r) ==
    /\ ~TaskTick
    /\ loops[r].pc = "cycle"
    /\ loops[r].cur \in DOMAIN cycles
    /\ cycles[loops[r].cur].resolved
    /\ lastCall' = NoCall
    /\ IF hasSummaryHandler(user)
       THEN /\ lastSummary' = NoSummary
            /\ Commit(callSummaryHandler(World, r))
       ELSE /\ lastSummary' = emitted(World, loops[r].cur)
            /\ \E late \in BOOLEAN, stopper \in Stoppers :
                   /\ late => options.cycleIntervalStrategy = "dynamic"
                                  /\ _computeInterval("cycleInterval") > 0
                   /\ Commit(afterCycle(World, r, late, [late |-> {}, stopper |-> stopper]))
    /\ UNCHANGED <<options, user>>

\* the promise of summaryHandler has settled: a rejection is logged as
\* summaryHandleError, the loop emits the summary and sleeps or goes round
SummaryReturn(r) ==
    /\ loops[r].pc = "summaryHandler"
    /\ lastSummary' = loops[r].held
    /\ lastCall' = NoCall
    /\ \E late \in BOOLEAN, stopper \in Stoppers :
           /\ late => options.cycleIntervalStrategy = "dynamic"
                          /\ _computeInterval("cycleInterval") > 0
           /\ Commit(afterSummaryHandler(World, r, late, [late |-> {}, stopper |-> stopper]))
    /\ UNCHANGED <<options, user>>

\* the sleep between two cycles ends: its timer fires, or the run's signal has fired
LoopWake(r) ==
    /\ ~TaskTick
    /\ loops[r].pc = "sleep"
    /\ loops[r].aborted \/ ~Urgent
    /\ \E stopper \in Stoppers :
           Commit(loopIteration(World, r, [late |-> {}, stopper |-> stopper]))
    /\ lastSummary' = NoSummary
    /\ lastCall' = NoCall
    /\ UNCHANGED <<options, user>>

\* the loop has exited: the finally callback of start() runs
Finally(r) ==
    /\ ~TaskTick
    /\ loops[r].pc = "exited"
    /\ Commit(finally(World, r))
    /\ lastSummary' = NoSummary
    /\ lastCall' = NoCall
    /\ UNCHANGED <<options, user>>

-----------------------------------------------------------------------------
(* Specifications *)

MaxConcurrency == 2
MaxRetryLimit == 1

Config(kind, n, rl, interval) ==
    [DefaultOptions EXCEPT !.paginationType = kind, !.concurrency = n,
                           !.interval = interval,
                           !.errorHandlingPolicy.retryLimit = rl]

\* the configurations explored: every pagination type; concurrent and
\* sequential, paced and unpaced, with and without retries
Configs ==
    {Config(None, 1, MaxRetryLimit, 1),
     Config(TotalPages, MaxConcurrency, MaxRetryLimit, 0),
     Config(TotalPages, 1, 0, 1),
     Config(HasMore, MaxConcurrency, MaxRetryLimit, 0),
     Config(Cursor, 1, MaxRetryLimit, 0),
     Config(List, MaxConcurrency, MaxRetryLimit, 0)}

\* the users explored: sources of 1..MaxPage pages, fetchHandlers that may call
\* stop(true), and (starts) fetchHandlers that may call start()
Users == {[DefaultUser EXCEPT !.totalPages = t, !.listLen = t, !.stops = TRUE,
                              !.starts = b]
            : t \in 1..MaxPage, b \in BOOLEAN}

InitState ==
    /\ state = [running |-> 0, flowsContexts |-> << >>,
                isFirstContextInit |-> TRUE, isConcurrencyFixed |-> FALSE,
                thisInits |-> 1,
                handling |-> 0, responseHandleErrors |-> 0,
                events |-> << >>, awaited |-> 0]
    /\ loops = << >>
    /\ cycles = << >>
    /\ seq = [run |-> 0, cycle |-> 0, ctx |-> 0]
    /\ lastSummary = NoSummary
    /\ lastCall = NoCall

\* a re-entrant start() is explored on the None and TotalPages configurations
Init ==
    /\ options \in Configs
    /\ user \in Users
    /\ user.starts = (options.paginationType \in {None, TotalPages})
    /\ InitState

Next ==
    \/ \E reenter \in BOOLEAN : Start(reenter)
    \/ StartOnce
    \/ \E forced \in BOOLEAN : Stop(forced)
    \/ \E cid \in DOMAIN cycles : Tick(cid)
    \/ \E cid \in DOMAIN cycles : \E ctx \in flows(cycles[cid]) : WakeWorker(cid, ctx)
    \/ \E cid \in DOMAIN cycles : \E ctx \in flows(cycles[cid]) : DropReturn(cid, ctx)
    \/ \E cid \in DOMAIN cycles : \E ctx \in flows(cycles[cid]) :
           \E res \in {"ok", "error"} : FetchReturn(cid, ctx, res)
    \/ \E r \in DOMAIN loops : ResolveList(r)
    \/ \E r \in DOMAIN loops : CycleEnd(r)
    \/ \E r \in DOMAIN loops : LoopWake(r)
    \/ \E r \in DOMAIN loops : Finally(r)

Spec == Init /\ [][Next]_vars

-----------------------------------------------------------------------------
(* startOnce() under every cycleInterval: the scraper is driven by startOnce()  *)
(* and stop() only                                                              *)

CycleIntervals == {Undefined, 0, 1}

ConfigsOnce ==
    {[cfg EXCEPT !.cycleInterval = ci, !.cycleIntervalStrategy = st]
        : cfg \in {Config(None, 1, MaxRetryLimit, 1),
                   Config(TotalPages, MaxConcurrency, 0, 0),
                   Config(List, 1, 0, 0)},
          ci \in CycleIntervals, st \in {"fixed", "dynamic"}}

InitOnce ==
    /\ options \in ConfigsOnce
    /\ user \in {[DefaultUser EXCEPT !.totalPages = t, !.listLen = t] : t \in 1..MaxPage}
    /\ InitState

NextOnce ==
    \/ StartOnce
    \/ \E forced \in BOOLEAN : Stop(forced)
    \/ \E cid \in DOMAIN cycles : Tick(cid)
    \/ \E cid \in DOMAIN cycles : \E ctx \in flows(cycles[cid]) : WakeWorker(cid, ctx)
    \/ \E cid \in DOMAIN cycles : \E ctx \in flows(cycles[cid]) :
           \E res \in {"ok", "error"} : FetchReturn(cid, ctx, res)
    \/ \E r \in DOMAIN loops : ResolveList(r)
    \/ \E r \in DOMAIN loops : CycleEnd(r)
    \/ \E r \in DOMAIN loops : LoopWake(r)
    \/ \E r \in DOMAIN loops : Finally(r)

SpecOnce == InitOnce /\ [][NextOnce]_vars

-----------------------------------------------------------------------------
(* options.concurrency changed while the scraper runs                          *)

\* initFlowContext returns an array of this many contexts in the fixed mode
ArrayLen == 2

ConfigsTune ==
    {Config(None, MaxConcurrency, MaxRetryLimit, 1),
     Config(Cursor, MaxConcurrency, 0, 0),
     Config(HasMore, 1, 0, 0),
     Config(List, MaxConcurrency, 0, 0)}
    \cup {[Config(TotalPages, n, MaxRetryLimit, 0) EXCEPT !.paginationPrefetch = b]
            : n \in 1..MaxConcurrency, b \in BOOLEAN}

InitTune ==
    /\ options \in ConfigsTune
    /\ user \in {[DefaultUser EXCEPT !.totalPages = MaxPage, !.listLen = MaxPage,
                                     !.arrayLen = a] : a \in 0..ArrayLen}
    /\ InitState

NextTune ==
    \/ \E reenter \in BOOLEAN : Start(reenter)
    \/ \E n \in 1..MaxConcurrency : SetConcurrency(n)
    \/ \E cid \in DOMAIN cycles : Tick(cid)
    \/ \E cid \in DOMAIN cycles : \E ctx \in flows(cycles[cid]) : WakeWorker(cid, ctx)
    \/ \E cid \in DOMAIN cycles : \E ctx \in flows(cycles[cid]) :
           \E res \in {"ok", "error"} : FetchReturn(cid, ctx, res)
    \/ \E r \in DOMAIN loops : ResolveList(r)
    \/ \E r \in DOMAIN loops : CycleEnd(r)
    \/ \E r \in DOMAIN loops : LoopWake(r)

SpecTune == InitTune /\ [][NextTune]_vars

\* Cycles that are never stopped, on the pagination types that dispatch
\* concurrently, with retries: the runs the retry queue is about.
ConfigsRetry ==
    {Config(kind, MaxConcurrency, MaxRetryLimit, 0) : kind \in {TotalPages, HasMore, List}}

InitRetry ==
    /\ options \in ConfigsRetry
    /\ user \in {[DefaultUser EXCEPT !.totalPages = t, !.listLen = t] : t \in 1..MaxPage}
    /\ InitState

NextRetry ==
    \/ \E reenter \in BOOLEAN : Start(reenter)
    \/ \E cid \in DOMAIN cycles : Tick(cid)
    \/ \E cid \in DOMAIN cycles : \E ctx \in flows(cycles[cid]) : DropReturn(cid, ctx)
    \/ \E cid \in DOMAIN cycles : \E ctx \in flows(cycles[cid]) :
           \E res \in {"ok", "error"} : FetchReturn(cid, ctx, res)
    \/ \E r \in DOMAIN loops : ResolveList(r)
    \/ \E r \in DOMAIN loops : CycleEnd(r)

SpecRetry == InitRetry /\ [][NextRetry]_vars

\* Worked runs: a TotalPages source of ScenarioTotalPages pages read with
\* concurrency ScenarioConcurrency, a HasMore source whose last page is
\* ScenarioLastPage read with concurrency MaxConcurrency, a list of
\* ScenarioListLen items whose second item throws once.  No fetch fails but
\* the scripted one.
ScenarioTotalPages == 5
ScenarioConcurrency == 3
ScenarioLastPage == 4
ScenarioListLen == 3

ScenarioUser(t, failing) ==
    [DefaultUser EXCEPT !.totalPages = t, !.listLen = t, !.throwsOnce = failing]

InitScenario ==
    /\ \/ /\ options \in {[Config(TotalPages, ScenarioConcurrency, MaxRetryLimit, 0)
                                EXCEPT !.paginationPrefetch = b] : b \in BOOLEAN}
          /\ user = ScenarioUser(ScenarioTotalPages, {})
       \/ /\ options = Config(HasMore, MaxConcurrency, MaxRetryLimit, 0)
          /\ user = ScenarioUser(ScenarioLastPage, {})
       \/ /\ options \in {Config(List, n, MaxRetryLimit, 0) : n \in 1..MaxConcurrency}
          /\ user = ScenarioUser(ScenarioListLen, {1})
    /\ InitState

NextScenario ==
    \/ Start(FALSE)
    \/ \E cid \in DOMAIN cycles : Tick(cid)
    \/ \E cid \in DOMAIN cycles : \E ctx \in flows(cycles[cid]) : ScriptedReturn(cid, ctx)
    \/ \E r \in DOMAIN loops : ResolveList(r)
    \/ \E r \in DOMAIN loops : CycleEnd(r)

SpecScenario == InitScenario /\ [][NextScenario]_vars

\* The retry queue under contention: ScenarioListLen items read on
\* ScenarioConcurrency contexts, every fetch free to fail, pages retried up to
\* MaxRetryLimit + 1 times (a retry that has been on every context starts over).
InitQueue ==
    /\ options \in {Config(List, ScenarioConcurrency, rl, 0)
                      : rl \in {MaxRetryLimit, MaxRetryLimit + 1}}
    /\ user = [DefaultUser EXCEPT !.listLen = ScenarioListLen]
    /\ InitState

NextQueue ==
    \/ Start(FALSE)
    \/ \E cid \in DOMAIN cycles : Tick(cid)
    \/ \E cid \in DOMAIN cycles : \E ctx \in flows(cycles[cid]) :
           \E res \in {"ok", "error"} : FetchReturn(cid, ctx, res)
    \/ \E r \in DOMAIN loops : ResolveList(r)
    \/ \E r \in DOMAIN loops : CycleEnd(r)

SpecQueue == InitQueue /\ [][NextQueue]_vars

\* The error handling policy: the paginated types with skipPageIfPossible on
\* and off and with the limits of failed pages as the user may give them,
\* negative values included, paced and unpaced.
LimitInputs == {-1, 0, 1, Infinity}

\* `Math.max(0, Math.trunc(value))` of validateOptions
validLimit(value) == IF value < 0 THEN 0 ELSE value

ConfigsPolicy ==
    {[Config(kind, IF kind = Cursor THEN 1 ELSE MaxConcurrency, MaxRetryLimit, interval)
        EXCEPT !.errorHandlingPolicy.skipPageIfPossible = skip,
               !.errorHandlingPolicy.maxTotalPageFails = validLimit(limits[1]),
               !.errorHandlingPolicy.maxConsecutivePageFails = validLimit(limits[2])]
       : kind \in {TotalPages, HasMore, Cursor, List}, interval \in {0, 1},
         skip \in BOOLEAN,
         limits \in ({Infinity} \X LimitInputs) \cup (LimitInputs \X {Infinity})}

InitPolicy ==
    /\ options \in ConfigsPolicy
    /\ user \in {[DefaultUser EXCEPT !.totalPages = t, !.listLen = t] : t \in 1..MaxPage}
    /\ InitState

NextPolicy ==
    \/ Start(FALSE)
    \/ \E cid \in DOMAIN cycles : Tick(cid)
    \/ \E cid \in DOMAIN cycles : \E ctx \in flows(cycles[cid]) : WakeWorker(cid, ctx)
    \/ \E cid \in DOMAIN cycles : \E ctx \in flows(cycles[cid]) : DropReturn(cid, ctx)
    \/ \E cid \in DOMAIN cycles : \E ctx \in flows(cycles[cid]) :
           \E res \in {"ok", "error"} : FetchReturn(cid, ctx, res)
    \/ \E r \in DOMAIN loops : ResolveList(r)
    \/ \E r \in DOMAIN loops : CycleEnd(r)
    \/ \E r \in DOMAIN loops : LoopWake(r)

SpecPolicy == InitPolicy /\ [][NextPolicy]_vars

\* Stops under skipPageIfPossible = true, the policy under which a TotalPages,
\* HasMore or List cycle can report completed = true.
ConfigsSkip ==
    {[Config(kind, MaxConcurrency, MaxRetryLimit, 0)
        EXCEPT !.errorHandlingPolicy.skipPageIfPossible = TRUE]
       : kind \in {TotalPages, HasMore, List}}

InitSkip ==
    /\ options \in ConfigsSkip
    /\ user \in {[DefaultUser EXCEPT !.totalPages = t, !.listLen = t] : t \in 1..MaxPage}
    /\ InitState

NextSkip ==
    \/ Start(FALSE)
    \/ \E forced \in BOOLEAN : Stop(forced)
    \/ \E cid \in DOMAIN cycles : Tick(cid)
    \/ \E cid \in DOMAIN cycles : \E ctx \in flows(cycles[cid]) : DropReturn(cid, ctx)
    \/ \E cid \in DOMAIN cycles : \E ctx \in flows(cycles[cid]) :
           \E res \in {"ok", "error"} : FetchReturn(cid, ctx, res)
    \/ \E r \in DOMAIN loops : ResolveList(r)
    \/ \E r \in DOMAIN loops : CycleEnd(r)
    \/ \E r \in DOMAIN loops : Finally(r)

SpecSkip == InitSkip /\ [][NextSkip]_vars

\* The life of the contexts: initThisContext and initFlowContext that fail
\* after a while, the reset options on and off, options.concurrency changed
\* while the scraper runs or is stopped, stops and restarts.
MaxCtxBudget == 3

ConfigsContext ==
    {[Config(HasMore, 1, 0, 0)
        EXCEPT !.resetThisContext = this, !.resetFlowContext = flow,
               !.removeContextForRedundantFlows = remove]
       : this \in BOOLEAN, flow \in BOOLEAN, remove \in BOOLEAN}

UsersContext ==
    {[DefaultUser EXCEPT !.totalPages = 1, !.arrayLen = a, !.ctxBudget = cb,
                         !.thisBudget = tb]
       : a \in {0, ArrayLen}, cb \in (0..MaxCtxBudget) \cup {Infinity},
         tb \in (1..MaxCycles) \cup {Infinity}}

InitContext ==
    /\ options \in ConfigsContext
    /\ user \in UsersContext
    /\ user.thisBudget # Infinity => options.resetThisContext
    /\ InitState

NextContext ==
    \/ Start(FALSE)
    \/ \E forced \in BOOLEAN : Stop(forced)
    \/ \E n \in 1..MaxConcurrency : SetConcurrency(n)
    \/ \E cid \in DOMAIN cycles : Tick(cid)
    \/ \E cid \in DOMAIN cycles : \E ctx \in flows(cycles[cid]) :
           \E res \in {"ok", "error"} : FetchReturn(cid, ctx, res)
    \/ \E r \in DOMAIN loops : CycleEnd(r)
    \/ \E r \in DOMAIN loops : Finally(r)

SpecContext == InitContext /\ [][NextContext]_vars

\* options.summaryHandler not set, fulfilling, and throwing or rejecting, over
\* runs that are stopped (gracefully and by force) and started again, with and
\* without a sleep between the cycles.
ConfigsSummary ==
    {Config(k, MaxConcurrency, 0, i) : k \in {None, HasMore}, i \in {0, 1}}

InitSummary ==
    /\ options \in ConfigsSummary
    /\ user \in {[DefaultUser EXCEPT !.totalPages = 1, !.summaryHandler = h]
                    : h \in {"none", "ok", "throws"}}
    /\ InitState

NextSummary ==
    \/ Start(FALSE)
    \/ \E forced \in BOOLEAN : Stop(forced)
    \/ \E cid \in DOMAIN cycles : Tick(cid)
    \/ \E cid \in DOMAIN cycles : \E ctx \in flows(cycles[cid]) :
           \E res \in {"ok", "error"} : FetchReturn(cid, ctx, res)
    \/ \E r \in DOMAIN loops : CycleEnd(r)
    \/ \E r \in DOMAIN loops : SummaryReturn(r)
    \/ \E r \in DOMAIN loops : LoopWake(r)
    \/ \E r \in DOMAIN loops : Finally(r)

SpecSummary == InitSummary /\ [][NextSummary]_vars

\* options.responseHandler unset, returning and throwing, for every pagination
\* type; fetches that always succeed, and fetches that may throw or give a
\* response the resolver fails on.
ConfigsResponse ==
    {Config(None, 1, MaxRetryLimit, 0),
     Config(TotalPages, MaxConcurrency, MaxRetryLimit, 0),
     Config(HasMore, MaxConcurrency, MaxRetryLimit, 0),
     Config(Cursor, 1, MaxRetryLimit, 0),
     Config(List, MaxConcurrency, MaxRetryLimit, 0)}

InitResponse ==
    /\ options \in ConfigsResponse
    /\ user \in {[DefaultUser EXCEPT !.totalPages = t, !.listLen = t,
                                     !.responseHandler = h, !.results = rs]
                    : t \in {MaxPage}, h \in {"none", "ok", "throws"},
                      rs \in {{"ok"}, {"ok", "error", "resolveError"}}}
    /\ InitState

\* None and List have no resolver
Results ==
    IF options.paginationType \in {None, List} THEN user.results \ {"resolveError"}
    ELSE user.results

NextResponse ==
    \/ Start(FALSE)
    \/ Stop(TRUE)
    \/ \E r \in DOMAIN loops : Finally(r)
    \/ \E cid \in DOMAIN cycles : Tick(cid)
    \/ \E cid \in DOMAIN cycles : \E ctx \in flows(cycles[cid]) : DropReturn(cid, ctx)
    \/ \E cid \in DOMAIN cycles : \E ctx \in flows(cycles[cid]) :
           \E res \in Results : FetchReturn(cid, ctx, res)
    \/ HandlerReturn
    \/ \E r \in DOMAIN loops : ResolveList(r)
    \/ \E r \in DOMAIN loops : CycleEnd(r)

SpecResponse == InitResponse /\ [][NextResponse]_vars

\* A listener of started and stopped that reads isRunning, and callers that
\* start and stop from outside or start again as soon as the promise of stop()
\* is fulfilled.  A callback the running task queued with nextTick runs before
\* the microtasks.
InitEvents ==
    /\ options \in {Config(None, 1, 0, 0), Config(HasMore, 1, 0, 1)}
    /\ user = [DefaultUser EXCEPT !.totalPages = 1, !.listens = TRUE]
    /\ InitState

NextEvents ==
    \/ Start(FALSE)
    \/ \E forced \in BOOLEAN : Stop(forced)
    \/ \E forced \in BOOLEAN : StopAwait(forced)
    \/ Resume
    \/ Emit
    \/ \E cid \in DOMAIN cycles : Tick(cid)
    \/ \E cid \in DOMAIN cycles : \E ctx \in flows(cycles[cid]) :
           \E res \in {"ok", "error"} : FetchReturn(cid, ctx, res)
    \/ \E r \in DOMAIN loops : CycleEnd(r)
    \/ \E r \in DOMAIN loops : LoopWake(r)
    \/ \E r \in DOMAIN loops : Finally(r)

SpecEvents == InitEvents /\ [][NextEvents]_vars

\* resetFlowContext = true and a fetchHandler that may call start().
InitReset ==
    /\ options \in {[Config(k, MaxConcurrency, 0, 0) EXCEPT !.resetFlowContext = TRUE]
                      : k \in {TotalPages, HasMore}}
    /\ user = [DefaultUser EXCEPT !.starts = TRUE]
    /\ InitState

NextReset ==
    \/ \E reenter \in BOOLEAN : Start(reenter)
    \/ \E forced \in BOOLEAN : Stop(forced)
    \/ \E cid \in DOMAIN cycles : Tick(cid)
    \/ \E cid \in DOMAIN cycles : \E ctx \in flows(cycles[cid]) :
           \E res \in {"ok", "error"} : FetchReturn(cid, ctx, res)
    \/ \E r \in DOMAIN loops : CycleEnd(r)
    \/ \E r \in DOMAIN loops : Finally(r)

SpecReset == InitReset /\ [][NextReset]_vars

\* Runs left to themselves: nobody calls stop(), every pagination type, retries
\* on distinct contexts and on any context.  Every callback that is pending
\* eventually runs: a queued nextTick, a timer, the reaction of a promise, and
\* every fetchHandler call settles (it resolves or rejects).  The sources are
\* finite, so the executor signals done.
InitLive ==
    /\ options \in {[cfg EXCEPT !.errorHandlingPolicy.retryDistinctFlows = d]
                      : cfg \in Configs, d \in BOOLEAN}
    /\ user \in {[DefaultUser EXCEPT !.totalPages = t, !.listLen = t] : t \in 1..MaxPage}
    /\ InitState

NextLive ==
    \/ Start(FALSE)
    \/ \E cid \in DOMAIN cycles : Tick(cid)
    \/ \E cid \in DOMAIN cycles : \E ctx \in flows(cycles[cid]) : WakeWorker(cid, ctx)
    \/ \E cid \in DOMAIN cycles : \E ctx \in flows(cycles[cid]) : DropReturn(cid, ctx)
    \/ \E cid \in DOMAIN cycles : \E ctx \in flows(cycles[cid]) :
           \E res \in {"ok", "error"} : FetchReturn(cid, ctx, res)
    \/ \E r \in DOMAIN loops : ResolveList(r)
    \/ \E r \in DOMAIN loops : CycleEnd(r)
    \/ \E r \in DOMAIN loops : LoopWake(r)

\* Weak fairness of the driver's steps.  For every step but DropReturn
\* WF_vars(A) is written out as []<>~ENABLED <<A>>_vars \/ []<><<A>>_vars with
\* the enabling condition of A as a state predicate: the guard of the action in
\* the code.  A HasMore worker may run ahead of a fetch that has not
\* settled for as long as that takes; a behaviour in which it runs into the
\* page bound of Commit is cut short by the bound, not by the program, and is
\* no fair behaviour here.
SpecLive ==
    /\ InitLive
    /\ [][NextLive]_vars
    /\ WF_vars(\E cid \in DOMAIN cycles : \E ctx \in flows(cycles[cid]) :
                   DropReturn(cid, ctx))
    /\ \/ []<>~(~Urgent /\ \E r \in DOMAIN loops : loops[r].pc = "resolveList")
       \/ []<><<\E r \in DOMAIN loops : ResolveList(r)>>_vars
    /\ \/ []<>~(\E cid \in DOMAIN cycles : cycles[cid].ticks > 0)
       \/ []<><<\E cid \in DOMAIN cycles : Tick(cid)>>_vars
    /\ \/ []<>~(\E cid \in DOMAIN cycles : \E ctx \in flows(cycles[cid]) :
                    /\ cycles[cid].workers[ctx].phase = "sleep"
                    /\ cycles[cid].aborted \/ ~Urgent)
       \/ []<><<\E cid \in DOMAIN cycles : \E ctx \in flows(cycles[cid]) :
                    WakeWorker(cid, ctx)>>_vars
    /\ \/ []<>~(/\ ~Urgent
                 /\ \E cid \in DOMAIN cycles : \E ctx \in flows(cycles[cid]) :
                        cycles[cid].workers[ctx].phase = "fetch")
       \/ []<><<\E cid \in DOMAIN cycles : \E ctx \in flows(cycles[cid]) :
                    \E res \in {"ok", "error"} : FetchReturn(cid, ctx, res)>>_vars

\* The fail counter on its own: a counter of _initFailCounter() that is given
\* up to MaxTimeline calls of success() and fail(page), for distinct pages in any
\* order, and then one call of complete(lastPage), under every policy.
MaxTimeline == 4

InitCounter ==
    /\ options \in {[Config(HasMore, 1, 0, 0) EXCEPT
                         !.errorHandlingPolicy.skipPageIfPossible = skip,
                         !.errorHandlingPolicy.maxTotalPageFails = mt,
                         !.errorHandlingPolicy.maxConsecutivePageFails = mc]
                      : skip \in BOOLEAN, mt \in {0, 1, 2, Infinity},
                        mc \in {0, 1, 2, Infinity}}
    /\ user = DefaultUser
    /\ state = [running |-> 0, flowsContexts |-> << >>,
                isFirstContextInit |-> TRUE, isConcurrencyFixed |-> FALSE,
                thisInits |-> 1,
                handling |-> 0, responseHandleErrors |-> 0,
                events |-> << >>, awaited |-> 0]
    /\ loops = << >>
    /\ cycles = <<NewCycle(0)>>
    /\ seq = [run |-> 0, cycle |-> 1, ctx |-> 0]
    /\ lastSummary = NoSummary
    /\ lastCall = NoCall

\* failCounter.success()
CounterSuccess ==
    /\ ~cycles[1].summarized
    /\ Len(cycles[1].pageFailTimeline) < MaxTimeline
    /\ cycles' = [cycles EXCEPT ![1] = success(@)]
    /\ UNCHANGED <<options, user, state, loops, seq, lastSummary, lastCall>>

\* failCounter.fail(page), for a page that has not failed before
CounterFail(page) ==
    /\ ~cycles[1].summarized
    /\ Len(cycles[1].pageFailTimeline) < MaxTimeline
    /\ page \notin Range(cycles[1].pageFailTimeline)
    /\ cycles' = [cycles EXCEPT ![1] = fail(@, page)]
    /\ UNCHANGED <<options, user, state, loops, seq, lastSummary, lastCall>>

\* failCounter.complete(lastPage): completed is what it returned
CounterComplete(lastPage) ==
    /\ ~cycles[1].summarized
    /\ \E d \in {complete(cycles[1], lastPage)} :
           cycles' = [cycles EXCEPT ![1] = [d EXCEPT !.completed = canSkipPage(d),
                                                    !.lastPage = lastPage,
                                                    !.summarized = TRUE]]
    /\ UNCHANGED <<options, user, state, loops, seq, lastSummary, lastCall>>

NextCounter ==
    \/ CounterSuccess
    \/ \E page \in PageIds \ {0} : CounterFail(page)
    \/ \E lastPage \in (PageIds \ {0}) \cup {Undefined} : CounterComplete(lastPage)

SpecCounter == InitCounter /\ [][NextCounter]_vars

\* The public API called in every state, also where the call is redundant:
\* start() on a running scraper, stop() on an idle one.
ConfigsCalls ==
    {Config(None, 1, 0, 1),
     Config(TotalPages, 1, 0, 1),
     Config(HasMore, MaxConcurrency, 0, 0),
     Config(List, 1, 0, 0)}

InitCalls ==
    /\ options \in ConfigsCalls
    /\ user \in {[DefaultUser EXCEPT !.totalPages = t, !.listLen = t] : t \in 1..MaxPage}
    /\ InitState

NextCalls ==
    \/ \E reenter \in BOOLEAN : Start(reenter)
    \/ StartRunning
    \/ \E forced \in BOOLEAN : Stop(forced)
    \/ \E forced \in BOOLEAN : StopIdle(forced)
    \/ \E cid \in DOMAIN cycles : Tick(cid)
    \/ \E cid \in DOMAIN cycles : \E ctx \in flows(cycles[cid]) : WakeWorker(cid, ctx)
    \/ \E cid \in DOMAIN cycles : \E ctx \in flows(cycles[cid]) :
           \E res \in {"ok", "error"} : FetchReturn(cid, ctx, res)
    \/ \E r \in DOMAIN loops : ResolveList(r)
    \/ \E r \in DOMAIN loops : CycleEnd(r)
    \/ \E r \in DOMAIN loops : LoopWake(r)
    \/ \E r \in DOMAIN loops : Finally(r)

SpecCalls == InitCalls /\ [][NextCalls]_vars

-----------------------------------------------------------------------------
(* Properties *)

\* the worker executions of cycle c that are inside fetchHandler
Fetching(c) == {x \in flows(c) : c.workers[x].phase = "fetch"}

\* the cycles whose handler has not returned yet
InFlight == {cid \in DOMAIN cycles : ~cycles[cid].summarized}

\* the effective concurrency of cycle c as section 4.1 of the specification
\* states it, from the options and the state as they are now
EffectiveConcurrency(c) ==
    IF options.paginationType \in {None, Cursor} THEN 1
    ELSE IF options.paginationType = TotalPages /\ ~options.paginationPrefetch
                /\ ~c.firstPageReady
         THEN 1
         ELSE IF state.isConcurrencyFixed THEN Len(state.flowsContexts)
              ELSE options.concurrency

\* C1: after a forced stop has aborted a cycle, the cycle's summary is produced
\* only when no executor invocation of that cycle is still in flight: a summary
\* of an aborted cycle is never emitted while one of its fetches is outstanding.
C1_SummaryAfterQuiescence ==
    lastSummary.aborted => lastSummary.inFlight = 0

\* C2: a TotalPages, HasMore or List cycle that runs to its natural end with no
\* page in failedPageList reports completed = true (also with the default
\* skipPageIfPossible = false).
C2_NaturalEndCompleted ==
    (/\ lastSummary.cycle # 0
     /\ options.paginationType \in {TotalPages, HasMore, List}
     /\ ~lastSummary.aborted
     /\ lastSummary.reachedEnd
     /\ lastSummary.summary.failedPageList = << >>)
        => lastSummary.summary.completed

\* C3: after a graceful stop (no forced stop on the run) the per-cycle signal of
\* the run's cycles is never aborted, the cycle's summary is produced with no
\* fetch outstanding, and no cycle begins after the run's signal was aborted.
C3_GracefulStopFinishesCycle ==
    \A r \in DOMAIN loops :
        /\ loops[r].aborted => loops[r].cycleCount = loops[r].cyclesAtStop
        /\ ~loops[r].forced =>
               /\ \A cid \in DOMAIN cycles :
                      cycles[cid].run = r => ~cycles[cid].aborted
               /\ lastSummary.run = r =>
                      ~lastSummary.aborted /\ lastSummary.inFlight = 0

\* a run stopped gracefully from outside while its cycle had fetches in flight has
\* emitted that cycle's summary, the cycle having reached its end
C3_Witness ==
    \E r \in DOMAIN loops :
        /\ ~loops[r].once /\ loops[r].aborted /\ ~loops[r].forced
        /\ loops[r].reason = "gracefulStop"
        /\ lastSummary.run = r /\ lastSummary.reachedEnd
        /\ lastSummary.summary.totalErrorCount > 0

\* C4: startOnce() on an idle scraper runs exactly one cycle whatever
\* cycleInterval and its strategy are: the run begins one cycle, never a second
\* one, emits at most one cycleSummary, and has stopped only after that one
\* summary was emitted.
C4_StartOnceRunsOneCycle ==
    \A r \in DOMAIN loops :
        loops[r].once =>
            /\ loops[r].cycleCount = 1
            /\ loops[r].summaries <= 1
            /\ loops[r].pc = "stopped" => loops[r].summaries = 1

\* a startOnce() run with cycleInterval = 0 has stopped after its one cycle
C4_Witness ==
    \E r \in DOMAIN loops :
        /\ loops[r].once /\ loops[r].pc = "stopped"
        /\ loops[r].summaries = 1 /\ ~loops[r].forced
        /\ options.cycleInterval = 0

\* C5 as stated: at every point of a cycle |flows| is at most the effective
\* concurrency
C5_FlowsWithinConcurrency ==
    \A cid \in DOMAIN cycles :
        Cardinality(flows(cycles[cid])) <= EffectiveConcurrency(cycles[cid])

\* C5, as the code keeps it: a step that adds a worker to flows leaves |flows|
\* at most the effective concurrency (|flows| is above it only after
\* options.concurrency was lowered under workers already dispatched).
C5_DispatchWithinConcurrency ==
    [][\A cid \in DOMAIN cycles' :
           LET before == IF cid \in DOMAIN cycles THEN flows(cycles[cid]) ELSE {}
           IN ~(flows(cycles'[cid]) \subseteq before) =>
                  Cardinality(flows(cycles[cid])') <= EffectiveConcurrency(cycles[cid])'
      ]_vars

\* a HasMore cycle configured with concurrency 1 runs MaxConcurrency workers:
\* options.concurrency was raised and a dispatch pass has filled the new slots
C5_Witness ==
    \E cid \in InFlight :
        /\ options.paginationType = HasMore
        /\ Cardinality(Fetching(cycles[cid])) = MaxConcurrency
        /\ EffectiveConcurrency(cycles[cid]) = MaxConcurrency

\* C6: with retryDistinctFlows and at least retryLimit + 1 flow contexts, the
\* attempts of a page are on pairwise distinct contexts, and a page in
\* failedPageList has been attempted on retryLimit + 1 distinct contexts.
C6_RetriesOnDistinctContexts ==
    (/\ options.errorHandlingPolicy.retryDistinctFlows
     /\ Len(state.flowsContexts) >= options.errorHandlingPolicy.retryLimit + 1)
        => \A cid \in InFlight : \A p \in PageIds :
               LET a == cycles[cid].attempts[p]
               IN /\ \A i, j \in DOMAIN a : i # j => a[i] # a[j]
                  /\ p \in Range(cycles[cid].failedPageList) =>
                         Cardinality(Range(a)) =
                             options.errorHandlingPolicy.retryLimit + 1

\* a page has failed on two different contexts and is in failedPageList
C6_Witness ==
    \E cid \in InFlight : \E p \in Range(cycles[cid].failedPageList) :
        /\ options.errorHandlingPolicy.retryLimit >= 1
        /\ Len(state.flowsContexts) >= options.errorHandlingPolicy.retryLimit + 1
        /\ Cardinality(Range(cycles[cid].attempts[p])) =
               options.errorHandlingPolicy.retryLimit + 1

\* C7: a page is in failedPageList only after exactly retryLimit + 1 attempts of
\* it have failed (none of them is still running), and a page queued for a
\* retry is not in failedPageList and has attempts left: attemptsLeft is
\* retryLimit less the attempts made.
C7_FailedAfterAllAttempts ==
    \A cid \in InFlight :
        LET c == cycles[cid]
        IN /\ \A p \in Range(c.failedPageList) :
                  /\ p \in PageIds
                  /\ Len(c.attempts[p]) = options.errorHandlingPolicy.retryLimit + 1
                  /\ \A x \in Fetching(c) : c.workers[x].page # p
           /\ \A i \in DOMAIN c.pendingRetries :
                  LET pr == c.pendingRetries[i]
                  IN /\ pr.page \notin Range(c.failedPageList)
                     /\ pr.attemptsLeft >= 0
                     /\ pr.attemptsLeft =
                            options.errorHandlingPolicy.retryLimit
                                - Len(c.attempts[pr.page])

\* with retryLimit >= 1 a page is in failedPageList after retryLimit + 1 attempts
C7_Witness ==
    \E cid \in InFlight : \E p \in Range(cycles[cid].failedPageList) :
        /\ options.errorHandlingPolicy.retryLimit >= 1
        /\ Len(cycles[cid].attempts[p]) = options.errorHandlingPolicy.retryLimit + 1

\* C8: at most one cycle is in flight per instance, for every interleaving of
\* start(), startOnce() and stop(), also when they are called from inside a user
\* callback that runs synchronously during start().
C8_OneCycleInFlight ==
    Cardinality(InFlight) <= 1

\* C9: no flow context has two executor invocations outstanding at the same
\* time, also when a forced stop is followed by a new start() while fetches of
\* the aborted cycle still run on contexts that are kept (no fetchHandler calls
\* start() here).
C9_OneExecutionPerContext ==
    ~user.starts =>
        \A c1, c2 \in DOMAIN cycles :
            c1 # c2 => Fetching(cycles[c1]) \cap Fetching(cycles[c2]) = {}

\* C10: once a forced stop has aborted the per-cycle signal, fetchHandler is not
\* invoked again for that cycle, also when stop(true) is called from inside a
\* user callback during a dispatch pass.
C10_NoFetchAfterAbort ==
    \A cid \in DOMAIN cycles : ~cycles[cid].fetchAfterAbort

\* C11: stop(true) called after the run's signal was aborted by stop(false)
\* escalates: while the run's cycle is still running its per-cycle signal is
\* aborted by that call; and from the first stop to the loop's finally
\* state.running is the same running object, so every stop() call made on the
\* run returns the same promise.
C11_ForcedStopEscalates ==
    \A r \in DOMAIN loops :
        /\ (/\ loops[r].escalated
            /\ loops[r].pc \in {"cycle", "resolveList"}
            /\ loops[r].cur \in DOMAIN cycles)
               => loops[r].forced /\ cycles[loops[r].cur].aborted
        /\ (loops[r].aborted /\ loops[r].pc # "stopped") => state.running = r

\* stop(false), then stop(true) while fetches of the cycle are outstanding: the
\* cycle is aborted and its summary is not out yet
C11_Witness ==
    \E r \in DOMAIN loops :
        /\ ~loops[r].once
        /\ loops[r].reason = "gracefulStop" /\ loops[r].escalated
        /\ state.running = r /\ loops[r].pc = "cycle"
        /\ loops[r].cur \in InFlight
        /\ cycles[loops[r].cur].aborted
        /\ Fetching(cycles[loops[r].cur]) # {}

\* C12: redundant calls are no-ops.  start() on a running scraper returns false,
\* queues no event and changes nothing (no second loop); start() on an idle
\* scraper returns true and leaves it running, so start() twice in succession
\* returns true then false; stop() on an idle scraper returns a promise that is
\* already resolved, queues no event and changes nothing.
C12_RedundantCallsAreNoOps ==
    [][/\ (lastCall'.op = "start" /\ state.running # 0) =>
              /\ ~lastCall'.started /\ lastCall'.events = {}
              /\ UNCHANGED <<state, loops, cycles, seq>>
       /\ (lastCall'.op = "start" /\ state.running = 0) =>
              lastCall'.started /\ state'.running # 0
       /\ (lastCall'.op = "stop" /\ state.running = 0) =>
              /\ lastCall'.promise = 0 /\ lastCall'.events = {}
              /\ UNCHANGED <<state, loops, cycles, seq>>
      ]_vars

\* start() was called while a cycle of the running scraper had a fetch
\* outstanding, and returned false
C12_Witness ==
    /\ lastCall.op = "start" /\ ~lastCall.started
    /\ state.running # 0
    /\ \E cid \in InFlight : Fetching(cycles[cid]) # {}

C14_PageCountCoversFailed ==
    (lastSummary.cycle # 0 /\ options.paginationType \in {None, TotalPages, HasMore, List})
        => lastSummary.summary.totalPageCount >= Len(lastSummary.summary.failedPageList)

\* C15: failedPageList of every cycle summary is strictly ascending: sorted and
\* without duplicates, whatever the order in which the pages failed.
C15_FailedPageListSorted ==
    lastSummary.cycle # 0 =>
        \A i, j \in DOMAIN lastSummary.summary.failedPageList :
            i < j => lastSummary.summary.failedPageList[i]
                         < lastSummary.summary.failedPageList[j]

\* C16: totalErrorCount of a cycle summary is the number of executor attempts
\* of the cycle that have ended in a failure, the attempts that were retried
\* included.
C16_ErrorCountCountsEveryFailure ==
    /\ lastSummary.summary.totalErrorCount = lastSummary.failures
    /\ \A cid \in InFlight : cycles[cid].totalErrorCount = cycles[cid].failures

\* a summary with no failed page and an error: a failed attempt was retried
\* with success and is counted
C16_Witness ==
    /\ lastSummary.cycle # 0
    /\ lastSummary.summary.failedPageList = << >>
    /\ lastSummary.summary.totalErrorCount >= 1
    /\ lastSummary.failures = lastSummary.summary.totalErrorCount

\* C17: TotalPages, concurrency ScenarioConcurrency (3), paginationStart 1,
\* resolveTotalPages giving ScenarioTotalPages (5), every fetch succeeding:
\* the cycle makes exactly 5 fetches, one of each page 1..5, and its summary
\* has totalPageCount 5 and an empty failedPageList.
C17_TotalPagesFivePages ==
    (lastSummary.cycle # 0 /\ options.paginationType = TotalPages)
        => /\ lastSummary.fetchCount = ScenarioTotalPages
           /\ \A p \in PageIds :
                  Len(lastSummary.attempts[p]) = IF p \in 1..ScenarioTotalPages THEN 1 ELSE 0
           /\ lastSummary.summary.totalPageCount = ScenarioTotalPages
           /\ lastSummary.summary.failedPageList = << >>

C17_Witness ==
    /\ lastSummary.cycle # 0
    /\ options.paginationType = TotalPages
    /\ options.concurrency = ScenarioConcurrency
    /\ options.paginationStart = 1
    /\ user.totalPages = ScenarioTotalPages
    /\ lastSummary.fetchCount = ScenarioTotalPages

\* C18: HasMore, concurrency 2, resolveHasMore true for pages 1..3 and false
\* for page ScenarioLastPage (4): the summary has totalPageCount 4 and an empty
\* failedPageList; page 5 is fetched at most once and is not an error, and no
\* page beyond it is fetched.
C18_HasMoreLastPage ==
    (lastSummary.cycle # 0 /\ options.paginationType = HasMore)
        => /\ lastSummary.summary.totalPageCount = ScenarioLastPage
           /\ lastSummary.summary.failedPageList = << >>
           /\ lastSummary.summary.totalErrorCount = 0
           /\ \A p \in PageIds :
                  /\ p \in 1..ScenarioLastPage => Len(lastSummary.attempts[p]) = 1
                  /\ p = ScenarioLastPage + 1 => Len(lastSummary.attempts[p]) <= 1
                  /\ p \notin 1..(ScenarioLastPage + 1) => Len(lastSummary.attempts[p]) = 0

\* page 5 was fetched as well, and the count is still 4
C18_Witness ==
    /\ lastSummary.cycle # 0
    /\ options.paginationType = HasMore
    /\ options.concurrency = MaxConcurrency
    /\ Len(lastSummary.attempts[ScenarioLastPage + 1]) = 1
    /\ lastSummary.summary.totalPageCount = ScenarioLastPage

\* C19: a List of ScenarioListLen (3) items whose second item throws once and
\* then succeeds, retryLimit >= 1: the cycle makes exactly 4 fetches, its
\* summary has failedPageList [], totalPageCount 3 and totalErrorCount 1.
C19_ListRetryOnce ==
    (lastSummary.cycle # 0 /\ options.paginationType = List)
        => /\ lastSummary.fetchCount = ScenarioListLen + 1
           /\ lastSummary.summary.failedPageList = << >>
           /\ lastSummary.summary.totalPageCount = ScenarioListLen
           /\ lastSummary.summary.totalErrorCount = 1

C19_Witness ==
    /\ lastSummary.cycle # 0
    /\ options.paginationType = List
    /\ options.errorHandlingPolicy.retryLimit >= 1
    /\ user.listLen = ScenarioListLen
    /\ user.throwsOnce = {1}
    /\ Len(lastSummary.attempts[1]) = 2
    /\ lastSummary.summary.totalErrorCount = 1

\* C20: Cursor execution is strictly sequential: at most one fetch is
\* outstanding at any time; the first fetch has no cursor and the fetch of
\* page k+1 has the cursor resolved from page k (a retry has the cursor of the
\* attempt that failed); a retry runs before any fresh page; a cycle that is
\* not stopped and has no failed page ends completed at the first nullish
\* cursor, every page up to that one fetched and none beyond.
C20_CursorStrictlySequential ==
    options.paginationType = Cursor
        => /\ \A cid \in DOMAIN cycles : Cardinality(Fetching(cycles[cid])) <= 1
           /\ \A cid, other \in DOMAIN cycles :
                  (Fetching(cycles[cid]) # {} /\ Fetching(cycles[other]) # {}) => cid = other
           /\ \A cid \in InFlight :
                  /\ \A x \in flows(cycles[cid]) :
                         /\ cycles[cid].workers[x].cursor = cycles[cid].workers[x].page - 1
                         /\ cycles[cid].workers[x].page = cycles[cid].nextPage - 1
                         /\ cycles[cid].pendingRetries = << >>
                  /\ \A i \in DOMAIN cycles[cid].pendingRetries :
                         cycles[cid].pendingRetries[i].page = cycles[cid].nextPage - 1
           /\ (/\ lastSummary.cycle # 0
               /\ ~lastSummary.aborted
               /\ lastSummary.summary.failedPageList = << >>)
                  => /\ lastSummary.summary.completed
                     /\ lastSummary.summary.totalPageCount = user.totalPages
                     /\ \A p \in PageIds :
                            (Len(lastSummary.attempts[p]) >= 1) = (p \in 1..user.totalPages)

\* C21: in a Cursor cycle a page that exhausts its retries ends the cycle,
\* whatever skipPageIfPossible is: done is signalled at once and no fresh page
\* is taken afterwards, the summary has the page in failedPageList and
\* completed false, and no page after the failed one was fetched.
C21_CursorFailureEndsCycle ==
    options.paginationType = Cursor
        => /\ \A cid \in InFlight :
                  /\ cycles[cid].failedPageList # << >> => cycles[cid].executorDone
                  /\ ~cycles[cid].freshAfterDone
           /\ (lastSummary.cycle # 0 /\ lastSummary.summary.failedPageList # << >>)
                  => /\ ~lastSummary.summary.completed
                     /\ Len(lastSummary.summary.failedPageList) = 1
                     /\ \A p \in PageIds :
                            p > lastSummary.summary.failedPageList[1]
                                => lastSummary.attempts[p] = << >>

\* a Cursor cycle with skipPageIfPossible on whose first page failed for good
\* while the source has a second page
C21_Witness ==
    /\ options.paginationType = Cursor
    /\ options.errorHandlingPolicy.skipPageIfPossible
    /\ user.totalPages > 1
    /\ lastSummary.cycle # 0
    /\ lastSummary.summary.failedPageList = <<1>>
    /\ Len(lastSummary.attempts[1]) = options.errorHandlingPolicy.retryLimit + 1

\* C25: with maxTotalPageFails or maxConsecutivePageFails given as 0 or as a
\* negative number, the first page that exhausts its retries ends a
\* TotalPages, HasMore or List cycle: done is signalled with the failure and
\* no fresh page is taken afterwards.
C25_ZeroLimitEndsAtFirstFailure ==
    (/\ options.paginationType \in {TotalPages, HasMore, List}
     /\ \/ options.errorHandlingPolicy.maxTotalPageFails <= 0
        \/ options.errorHandlingPolicy.maxConsecutivePageFails <= 0)
        => \A cid \in InFlight :
               /\ cycles[cid].failedPageList # << >> => cycles[cid].executorDone
               /\ ~cycles[cid].freshAfterDone

\* skipPageIfPossible is on, the limit is 0, the first page has failed for good
\* with the source's second page not yet taken: the cycle is done
C25_Witness ==
    /\ options.paginationType \in {TotalPages, HasMore, List}
    /\ options.errorHandlingPolicy.skipPageIfPossible
    /\ options.errorHandlingPolicy.maxTotalPageFails = 0
    /\ \E cid \in InFlight :
           /\ Len(cycles[cid].failedPageList) = 1
           /\ cycles[cid].totalPageFails = 1
           /\ cycles[cid].executorDone
           /\ ~cycles[cid].completed

\* C22: a None cycle fetches its single page at most retryLimit + 1 times and
\* not again after a success; its summary has totalPageCount 1, with
\* completed = true and failedPageList = [] if an attempt succeeded, and with
\* completed = false and failedPageList = [1] if retryLimit + 1 attempts
\* failed.  (The attempts of a cycle are those made, less those that failed,
\* less the one still outstanding.)
C22_NoneSinglePage ==
    (lastSummary.cycle # 0 /\ options.paginationType = None)
        => LET made == Len(lastSummary.attempts[1])
               succeeded == made - lastSummary.failures - lastSummary.inFlight
           IN /\ made <= options.errorHandlingPolicy.retryLimit + 1
              /\ lastSummary.fetchCount = made
              /\ lastSummary.summary.totalPageCount = 1
              /\ succeeded \in {0, 1}
              /\ succeeded = 1
                    => /\ lastSummary.inFlight = 0
                       /\ lastSummary.summary.completed
                       /\ lastSummary.summary.failedPageList = << >>
              /\ lastSummary.failures = options.errorHandlingPolicy.retryLimit + 1
                    => /\ ~lastSummary.summary.completed
                       /\ lastSummary.summary.failedPageList = <<1>>
              /\ (succeeded = 0 /\ lastSummary.failures <= options.errorHandlingPolicy.retryLimit)
                    => /\ ~lastSummary.summary.completed
                       /\ lastSummary.summary.failedPageList = << >>

\* a None cycle whose page failed and then succeeded on the retry
C22_Witness ==
    /\ options.paginationType = None
    /\ options.errorHandlingPolicy.retryLimit >= 1
    /\ lastSummary.cycle # 0
    /\ Len(lastSummary.attempts[1]) = 2
    /\ lastSummary.failures = 1
    /\ lastSummary.summary.completed
    /\ lastSummary.summary.failedPageList = << >>

\* C23: in a TotalPages cycle with paginationPrefetch = false there is no
\* fan-out before the total is known: as long as no page attempt has succeeded
\* (firstPageReady is false, lastPage undefined) at most one worker is
\* dispatched at a time, in fixed-concurrency mode too.
C23_NoFanOutBeforeTotal ==
    (options.paginationType = TotalPages /\ ~options.paginationPrefetch)
        => \A cid \in InFlight :
               /\ cycles[cid].firstPageReady = (cycles[cid].lastPage # Undefined)
               /\ ~cycles[cid].firstPageReady => Cardinality(flows(cycles[cid])) <= 1

\* fixed-concurrency mode with two contexts: the first page has failed once and
\* its retry runs alone, the other context staying free
C23_Witness ==
    /\ options.paginationType = TotalPages
    /\ ~options.paginationPrefetch
    /\ state.isConcurrencyFixed
    /\ Len(state.flowsContexts) >= 2
    /\ \E cid \in InFlight :
           /\ ~cycles[cid].firstPageReady
           /\ cycles[cid].failures >= 1
           /\ Cardinality(Fetching(cycles[cid])) = 1

\* C24: when initFlowContext returns an array of N contexts, concurrency is
\* pinned at N whatever options.concurrency is: flowsContexts stays those N
\* contexts (no dispatch pass creates one), a TotalPages, HasMore or List cycle
\* never has more than N workers, a None or Cursor cycle never more than one.
C24_ArrayPinsConcurrency ==
    (user.arrayLen > 0 /\ seq.cycle > 0)
        => /\ state.isConcurrencyFixed
           /\ state.flowsContexts = Fresh(0, user.arrayLen)
           /\ seq.ctx = user.arrayLen
           /\ \A cid \in InFlight :
                  /\ flows(cycles[cid]) \subseteq Range(state.flowsContexts)
                  /\ Cardinality(flows(cycles[cid])) <=
                         IF options.paginationType \in {None, Cursor} THEN 1
                         ELSE user.arrayLen

\* options.concurrency is 1 and the array has ArrayLen contexts: all of them
\* are fetching at once
C24_Witness ==
    /\ user.arrayLen = ArrayLen
    /\ options.concurrency = 1
    /\ options.paginationType \in {HasMore, List}
    /\ \E cid \in InFlight : Fetching(cycles[cid]) = Range(state.flowsContexts)

\* C26: a cycle that a forced stop cut short while one of its executor
\* invocations was outstanding or one of its retries pending never reports
\* completed = true.
C26_AbortedNeverCompleted ==
    (/\ lastSummary.cycle # 0
     /\ lastSummary.aborted
     /\ lastSummary.inFlight > 0 \/ lastSummary.pending > 0)
        => ~lastSummary.summary.completed

\* C27: a fatal runtime error (initThisContext failing on a reset,
\* initFlowContext failing at a cycle start or in a dispatch pass) forces a
\* stop: when it has been raised in a run, either the run's loop has exited, or
\* the run's signal is aborted by a forced stop and the current cycle is
\* aborted; no cycle starts afterwards, and a loop that has ended leaves
\* isRunning false.
C27_FatalErrorForcesStop ==
    \A r \in DOMAIN loops :
        loops[r].fatal
            => /\ loops[r].pc \notin {"exited", "stopped"}
                      => /\ loops[r].aborted
                         /\ loops[r].forced
                         /\ loops[r].cur \in InFlight => cycles[loops[r].cur].aborted
               /\ loops[r].aborted => loops[r].cycleCount = loops[r].cyclesAtStop
               /\ loops[r].pc = "stopped" => state.running # r

\* C28: with removeContextForRedundantFlows = true, in scalar mode, the
\* contexts of redundant flows are removed at the start of each cycle: when a
\* cycle dispatches its first workers flowsContexts holds exactly
\* options.concurrency contexts, also after the option was lowered, whatever
\* resetFlowContext is.
C28_RedundantContextsRemoved ==
    (/\ options.paginationType \in {TotalPages, HasMore, List}
     /\ options.removeContextForRedundantFlows
     /\ user.arrayLen = 0)
        => \A cid \in InFlight :
               cycles[cid].ctxsAtStart # 0
                   => cycles[cid].ctxsAtStart = cycles[cid].concAtStart

C30_OneSummaryPerCycle ==
    [][\A r \in DOMAIN loops' :
          /\ loops'[r].cycleCount
                 = loops'[r].summaries
                     + (IF loops'[r].pc \in {"cycle", "resolveList", "summaryHandler"}
                        THEN 1 ELSE 0)
          /\ loops'[r].handleErrors
                 = IF user.summaryHandler = "throws" THEN loops'[r].summaries ELSE 0
          /\ (r \in DOMAIN loops /\ loops'[r].summaries # loops[r].summaries)
                 => /\ loops'[r].summaries = loops[r].summaries + 1
                    /\ lastSummary'.run = r
                    /\ lastSummary'.cycle = loops[r].cur
                    /\ user.summaryHandler # "none"
                           => /\ loops[r].pc = "summaryHandler"
                              /\ lastSummary' = loops[r].held
                    /\ ~loops[r].aborted => loops'[r].pc \in {"sleep", "cycle"}
          /\ (r \in DOMAIN loops /\ loops'[r].summaries = loops[r].summaries)
                 => lastSummary'.run # r
      ]_vars

C30_Witness ==
    /\ user.summaryHandler = "throws"
    /\ lastSummary.cycle # 0
    /\ lastSummary.summary.completed
    /\ \E r \in DOMAIN loops :
           /\ lastSummary.run = r
           /\ ~loops[r].aborted
           /\ loops[r].summaries = 2
           /\ loops[r].handleErrors = 2
           /\ loops[r].pc \in {"sleep", "cycle"}
           /\ loops[r].cycleCount = IF loops[r].pc = "cycle" THEN 3 ELSE 2

\* C31: responseHandler is fire-and-forget.  The step in which the handler is
\* called is the step in which the executor returns and its worker is released
\* (the context leaves flows); the settling of a handler, by return or by throw,
\* changes nothing of the cycles and the loops; and when every fetch succeeds
\* no cycle has an error, a failed page or a pending retry, whether the handler
\* returns or throws.
C31_ResponseHandlerFireAndForget ==
    [][/\ state'.handling > state.handling
             => \E cid \in DOMAIN cycles : \E ctx \in flows(cycles[cid]) :
                    /\ cycles[cid].workers[ctx].phase = "fetch"
                    /\ cid \in DOMAIN cycles' => ctx \notin flows(cycles'[cid])
       /\ state'.handling < state.handling
             => /\ cycles' = cycles
                /\ loops' = loops
                /\ lastSummary' = NoSummary
       /\ user.results = {"ok"}
             => \A cid \in DOMAIN cycles' :
                    /\ cycles'[cid].totalErrorCount = 0
                    /\ cycles'[cid].failedPageList = << >>
                    /\ cycles'[cid].pendingRetries = << >>
                    /\ cycles'[cid].failures = 0
      ]_vars

\* a cycle has ended, completed and without an error, while a responseHandler
\* call is still running and after another one threw
C31_Witness ==
    /\ user.responseHandler = "throws"
    /\ state.handling > 0
    /\ state.responseHandleErrors > 0
    /\ lastSummary.cycle # 0
    /\ lastSummary.summary.completed
    /\ lastSummary.summary.totalErrorCount = 0
    /\ lastSummary.summary.failedPageList = << >>

\* C40: with a responseHandler, every cycle has called it once for each
\* fetchHandler call that returned a response, attempts whose resolver failed
\* included, and not at all for the calls that threw; one fetch return calls it
\* at most once.
C40_HandledOncePerResponse ==
    [][user.responseHandler # "none"
          => \A cid \in DOMAIN cycles' :
                 /\ cycles'[cid].handled = cycles'[cid].responses
                 /\ cid \in DOMAIN cycles
                        => /\ cycles'[cid].handled - cycles[cid].handled \in {0, 1}
                           /\ cycles'[cid].handled > cycles[cid].handled
                                  => Fetching(cycles'[cid]) \subseteq Fetching(cycles[cid])
      ]_vars

\* a page whose first attempt gave a response the resolver failed on was
\* retried with success: two fetches, one failure, two responseHandler calls
C40_Witness ==
    /\ options.paginationType \in {TotalPages, HasMore, Cursor}
    /\ user.responseHandler # "none"
    /\ \E cid \in DOMAIN cycles :
           /\ cycles[cid].fetchCount = 2
           /\ Len(cycles[cid].attempts[1]) = 2
           /\ cycles[cid].failures = 1
           /\ cycles[cid].totalErrorCount = 1
           /\ cycles[cid].handled = 2
           /\ flows(cycles[cid]) = {}

\* C32: whenever a started event is delivered to its listeners isRunning is
\* true, and whenever a stopped event is delivered isRunning is false.
C32_EventsAgreeWithIsRunning ==
    [][Len(state'.events) < Len(state.events)
          => /\ Head(state.events).name = "started" => isRunning(World)
             /\ Head(state.events).name = "stopped" => ~isRunning(World)
      ]_vars

\* C33: the promise of a cycle's orchestrator resolves once: once resolved it
\* stays resolved, and the cycle's summary is emitted only when it has resolved;
\* and a promise that was resolved while the cycle's signal had not fired
\* belongs to a quiescent cycle: done has been signalled, no context is
\* dispatched, no retry is pending, from the resolution to the summary.
C33_ResolvesOnceWhenQuiescent ==
    [][/\ \A cid \in DOMAIN cycles \cap DOMAIN cycles' :
              cycles[cid].resolved => cycles'[cid].resolved
       /\ \A cid \in DOMAIN cycles' :
              (/\ cycles'[cid].started
               /\ cycles'[cid].resolved
               /\ ~cycles'[cid].aborted
               /\ ~cycles'[cid].summarized)
                  => /\ cycles'[cid].executorDone
                     /\ flows(cycles'[cid]) = {}
                     /\ cycles'[cid].pendingRetries = << >>
       /\ lastSummary'.cycle # 0
              => /\ lastSummary'.cycle \in DOMAIN cycles
                 /\ cycles[lastSummary'.cycle].resolved
      ]_vars

\* a cycle with a retried page has resolved on its own and is quiescent
C33_Witness ==
    \E cid \in DOMAIN cycles :
        /\ cycles[cid].started /\ cycles[cid].resolved
        /\ ~cycles[cid].aborted /\ ~cycles[cid].summarized
        /\ cycles[cid].failures > 0
        /\ cycles[cid].executorDone
        /\ flows(cycles[cid]) = {}
        /\ cycles[cid].pendingRetries = << >>

\* C34: in one dispatch pass with retryDistinctFlows the retries dispatched are
\* placed on contexts that were free, one context each (as many workers with a
\* retry appear as retries leave pendingRetries), they are at most the free
\* slots of the pass, the retries dispatched and the retries still queued are
\* the retries that were queued, each once, and the forced stop for a queued
\* retry without a context never happens.
C34_RetryQueueDispatch ==
    [][options.errorHandlingPolicy.retryDistinctFlows
          => /\ \A r \in DOMAIN loops' : ~loops'[r].fatal
             /\ \A cid \in DOMAIN cycles \cap DOMAIN cycles' :
                    LET c == cycles[cid]
                        d == cycles'[cid]
                        placed == {x \in flows(d) \ flows(c) : d.workers[x].pr # NoRetry}
                        pages(prs) == {prs[i].page : i \in DOMAIN prs}
                    IN (c.ticks > d.ticks /\ ~d.summarized)
                           => /\ Cardinality(placed)
                                     = Len(c.pendingRetries) - Len(d.pendingRetries)
                              /\ placed # {} =>
                                     Cardinality(placed)
                                         <= passConcurrency(World, c) - Cardinality(flows(c))
                              /\ pages(d.pendingRetries)
                                     \cup {d.workers[x].pr.page : x \in placed}
                                     = pages(c.pendingRetries)
                              /\ Cardinality(pages(d.pendingRetries))
                                     = Len(d.pendingRetries)
                              /\ \A x \in placed :
                                     d.workers[x].pr.page \notin pages(d.pendingRetries)
      ]_vars

\* one pass has placed two queued retries, each on the context the other had
\* failed on, after the first of them had waited for a context it had not tried
C34_Witness ==
    \E cid \in DOMAIN cycles : \E x, y \in flows(cycles[cid]) :
        /\ x # y
        /\ cycles[cid].workers[x].pr # NoRetry
        /\ cycles[cid].workers[y].pr # NoRetry
        /\ cycles[cid].workers[x].pr.flows = {y}
        /\ cycles[cid].workers[y].pr.flows = {x}
        /\ cycles[cid].workers[x].phase = "fetch"
        /\ cycles[cid].workers[y].phase = "fetch"
        /\ cycles[cid].pendingRetries = << >>

\* C35: in a HasMore cycle lastPage, once set, only decreases; it is set to a
\* page whose fetch has just succeeded with resolveHasMore = false, and after
\* such a fetch of page p it is at most p (so it is the smallest such page); a
\* retry dispatched for a page beyond lastPage is not fetched, and when its
\* executor returns nothing is added to totalErrorCount, failedPageList, the
\* fetches or the failures, and the page is not queued again.
C35_HasMoreLastPageAndDrops ==
    [][options.paginationType = HasMore
          => \A cid \in DOMAIN cycles \cap DOMAIN cycles' :
                 LET c == cycles[cid]
                     d == cycles'[cid]
                     ended == {x \in Fetching(c) : x \notin Fetching(d)}
                 IN ~d.summarized
                        => /\ c.lastPage # Undefined
                                  => d.lastPage # Undefined /\ d.lastPage <= c.lastPage
                           /\ d.lastPage # c.lastPage
                                  => \E x \in ended :
                                         /\ c.workers[x].page = d.lastPage
                                         /\ ~more(d.lastPage)
                                         /\ d.failures = c.failures
                           /\ \A x \in ended :
                                  (d.failures = c.failures /\ ~more(c.workers[x].page))
                                      => d.lastPage # Undefined
                                             /\ d.lastPage <= c.workers[x].page
                           /\ \A x \in flows(d) \ flows(c) :
                                  (/\ d.workers[x].pr # NoRetry
                                   /\ c.lastPage # Undefined
                                   /\ d.workers[x].pr.page > c.lastPage)
                                      => d.workers[x].phase = "drop"
                           /\ \A x \in flows(c) :
                                  (c.workers[x].phase = "drop" /\ x \notin flows(d))
                                      => /\ d.totalErrorCount = c.totalErrorCount
                                         /\ d.failedPageList = c.failedPageList
                                         /\ d.failures = c.failures
                                         /\ d.fetchCount = c.fetchCount
                                         /\ d.pendingRetries = c.pendingRetries
                                         /\ \A i \in DOMAIN d.pendingRetries :
                                                d.pendingRetries[i].page # c.workers[x].pr.page
      ]_vars

\* page 2 failed, page 1 turned out to be the last page, and the retry of
\* page 2 was dropped: one error counted, no failed page, two fetches
C35_Witness ==
    /\ options.paginationType = HasMore
    /\ user.totalPages = 1
    /\ \E cid \in DOMAIN cycles :
           /\ ~cycles[cid].summarized
           /\ cycles[cid].lastPage = 1
           /\ cycles[cid].failures = 1
           /\ cycles[cid].totalErrorCount = 1
           /\ cycles[cid].failedPageList = << >>
           /\ cycles[cid].pendingRetries = << >>
           /\ flows(cycles[cid]) = {}
           /\ Len(cycles[cid].attempts[2]) = 1
           /\ cycles[cid].fetchCount = 2
           /\ cycles[cid].resolved

\* C36: while a cycle is in progress (its handler has not returned, before and
\* after the step) the contexts in flowsContexts stay where they are: the list
\* only grows at its end, in scalar mode and no further than up to the current
\* concurrency, so that the contexts a cycle in progress runs on are contexts
\* of the list; and with resetFlowContext = false, once the first cycle start
\* has created the contexts, they stay where they are in every step, over all
\* later cycles and runs.
C36_ContextsKept ==
    [][(user.ctxBudget = Infinity /\ user.thisBudget = Infinity)
          => LET old == state.flowsContexts
                 new == state'.flowsContexts
                 kept == /\ Len(new) >= Len(old)
                         /\ SubSeq(new, 1, Len(old)) = old
             IN /\ (\E cid \in DOMAIN cycles \cap DOMAIN cycles' :
                        ~cycles[cid].summarized /\ ~cycles'[cid].summarized)
                       => /\ kept
                          /\ Len(new) > Len(old)
                                 => /\ ~state'.isConcurrencyFixed
                                    /\ Len(new) = options'.concurrency
                /\ (~options.resetFlowContext /\ ~state.isFirstContextInit) => kept
                /\ \A cid \in DOMAIN cycles' :
                       ~cycles'[cid].summarized
                           => flows(cycles'[cid]) \subseteq Range(new)
      ]_vars

\* C37: complete(lastPage) returns true exactly when skipPageIfPossible is set,
\* the failed pages with id <= lastPage are at most maxTotalPageFails, and no
\* stretch of the timeline without a success holds more than
\* maxConsecutivePageFails of them; the failed pages beyond lastPage do not count.
C37_CompleteRecountsUpToLastPage ==
    \A cid \in DOMAIN cycles :
        LET c == cycles[cid]
            t == c.pageFailTimeline
            failed == {i \in DOMAIN t : t[i] # Undefined /\ t[i] <= c.lastPage}
        IN (loops = << >> /\ c.summarized /\ c.lastPage # Undefined)
               => c.completed
                      = (/\ options.errorHandlingPolicy.skipPageIfPossible
                         /\ Cardinality(failed)
                                <= options.errorHandlingPolicy.maxTotalPageFails
                         /\ \A i, j \in DOMAIN t :
                                (\A k \in i..j : t[k] # Undefined)
                                    => Cardinality(failed \cap (i..j))
                                           <= options.errorHandlingPolicy.maxConsecutivePageFails)

\* three pages failed with no success in between, the one in the middle beyond
\* lastPage: complete counts two failures in a row and accepts them
C37_Witness ==
    /\ loops = << >>
    /\ cycles[1].summarized
    /\ cycles[1].completed
    /\ cycles[1].lastPage = 2
    /\ cycles[1].pageFailTimeline = <<1, 3, 2>>
    /\ options.errorHandlingPolicy.maxTotalPageFails = 2
    /\ options.errorHandlingPolicy.maxConsecutivePageFails = 2
    /\ cycles[1].totalPageFails = 2
    /\ cycles[1].consecutivePageFails = 2

\* C39: in a TotalPages cycle without prefetch in which no attempt has failed
\* and resolveTotalPages returns N (user.totalPages) every time, only the pages
\* paginationStart..N are fetched, each at most once, and all of them once the
\* cycle has resolved without an abort: no page beyond N is ever fetched.
C39_TotalPagesFetchesExactlyUpToN ==
    (options.paginationType = TotalPages /\ ~options.paginationPrefetch)
        => \A cid \in DOMAIN cycles :
               cycles[cid].failures = 0
                   => /\ \A p \in PageIds :
                             Len(cycles[cid].attempts[p])
                                 <= (IF p \in options.paginationStart..user.totalPages
                                     THEN 1 ELSE 0)
                      /\ (cycles[cid].resolved /\ ~cycles[cid].aborted)
                             => \A p \in options.paginationStart..user.totalPages :
                                    Len(cycles[cid].attempts[p]) = 1

\* C38: in a run that nobody stops and whose callbacks all return, a cycle
\* whose orchestrator has started eventually resolves, a page queued for a
\* retry eventually leaves the queue, and an unresolved cycle is never left
\* with neither a worker in flight nor a dispatch pass queued.
C38_CyclesResolveOnTheirOwn ==
    /\ [](\A cid \in DOMAIN cycles :
             (cycles[cid].started /\ ~cycles[cid].resolved)
                 => (flows(cycles[cid]) # {} \/ cycles[cid].ticks > 0))
    /\ \A cid \in 1..MaxCycles :
           /\ (cid \in DOMAIN cycles /\ cycles[cid].started)
                  ~> (cid \notin DOMAIN cycles \/ cycles[cid].resolved)
           /\ (cid \in DOMAIN cycles /\ cycles[cid].pendingRetries # << >>)
                  ~> (cid \notin DOMAIN cycles \/ cycles[cid].pendingRetries = << >>)
    /\ [][\A cid \in DOMAIN cycles \cap DOMAIN cycles' :
              (~cycles[cid].resolved /\ cycles'[cid].resolved)
                  => (~cycles'[cid].aborted /\ cycles'[cid].pendingRetries = << >>)]_vars

\* a cycle in which two attempts failed has resolved on its own, its retries
\* free to run on the context that failed
C38_Witness ==
    /\ ~options.errorHandlingPolicy.retryDistinctFlows
    /\ \E cid \in DOMAIN cycles :
           /\ cycles[cid].resolved
           /\ ~cycles[cid].summarized
           /\ ~cycles[cid].aborted
           /\ cycles[cid].failures >= 2

====
